---- MODULE Spec2Model ----
(***************************************************************************)
(* A model of the extraction engine of extract_places.py: the              *)
(* deduplicating collector (process_result), the checkpoint store          *)
(* (save_checkpoint / load_checkpoint), the final output writer            *)
(* (save_final_output), the orchestrator (search_grid_cell,                *)
(* extract_all_places) and the process life cycle of main().               *)
(*                                                                         *)
(* Python values are modelled as follows.                                  *)
(*   dict            a function from a set of string keys (DOMAIN = keys)  *)
(*   None            the record PyNone (only dict-typed values are ever    *)
(*                   None in the model; a missing or falsy string is "")   *)
(*   Optional[int]   <<>> for None, <<n>> for the integer n                *)
(*   Place           the 5-tuple <<place_id, name, types, lat, lng>>       *)
(*   Dict[str,Place] a sequence of <<key, Place>> pairs in insertion order *)
(*   a file          NoFile, Unparseable, or JsonFile(data)                *)
(***************************************************************************)
EXTENDS Integers, Sequences, FiniteSets, TLC

VARIABLES
    extractor,    \* the PlacesExtractor instance (self): its five fields
    ckpt_file,    \* content of Config.CHECKPOINT_FILE on disk
    out_file,     \* content of Config.OUTPUT_FILE on disk
    pc,           \* position of the process in main()
    idx,          \* loop variable of extract_all_places
    type_idx,     \* loop variable of search_grid_cell (index into search_types)
    results,      \* results of the current search still to be ingested
    resume_from,  \* Optional[int] returned by the last load_checkpoint
    start_from,   \* argument of the current extract_all_places call
    api,          \* the remote API: in Spec the table of its answers (fixed
                  \* for a behaviour), in SearchSpec the number of requests
                  \* it has failed so far
    runs,         \* number of processes started so far
    search_log,   \* history: searches issued by the current process, in order
    mem_done,     \* history: searches wholly ingested into the extractor state
    file_done,    \* history: mem_done as of the checkpoint file on disk
    op,           \* history: the last operation invoked, its argument, whether
                  \* it raised, and how many were invoked so far
    sw,           \* the frame of the current search_with_retry call: its
                  \* locals, and as history its requests, sleeps and answers
    gg,           \* the calls of generate_grid: the Config passed, what the
                  \* last call did, and as history what the one before did
    vw            \* the viewer (app.py): the holder of file_lock and the
                  \* DELETE requests being handled, each with its locals

vars == <<extractor, ckpt_file, out_file, pc, idx, type_idx, results,
          resume_from, start_from, api, runs, search_log, mem_done,
          file_done, op, sw, gg, vw>>

-----------------------------------------------------------------------------
(* Bounds of the model *)

MaxOps == 7          \* operations invoked in a behaviour of CollectorSpec
MaxDuplicates == 3   \* cap of total_duplicates_skipped in CollectorSpec
MaxApiCalls == 1     \* cap of total_api_calls in CollectorSpec
MaxIngest == 3       \* longest run of same-id ingestions tried on a state

-----------------------------------------------------------------------------
(* Python helpers *)

PyNone == [py_none |-> TRUE]

EmptyDict == [k \in {} |-> 0]

\* dict.get(key, default)
Get(d, k, default) == IF k \in DOMAIN d THEN d[k] ELSE default

Range(s) == {s[i] : i \in DOMAIN s}

\* list(a_set): the elements once each, in an order the program does not fix
SetToLists(S) ==
    {l \in [1..Cardinality(S) -> S] : Range(l) = S}

\* membership and assignment of an insertion-ordered dict
DictHas(d, k) == \E i \in DOMAIN d : d[i][1] = k

\* d[k] = v of a list of pairs: always appended
DictSetAppend(d, k, v) == Append(d, <<k, v>>)

\* d[k] = v: an existing key keeps its position, a new key goes last
DictSet(d, k, v) ==
    IF DictHas(d, k)
    THEN [i \in DOMAIN d |-> IF d[i][1] = k THEN <<k, v>> ELSE d[i]]
    ELSE Append(d, <<k, v>>)

DictKeys(d) == [i \in DOMAIN d |-> d[i][1]]

DictValues(d) == [i \in DOMAIN d |-> d[i][2]]

-----------------------------------------------------------------------------
(* Place and its dict form *)

PlaceKeys == {"place_id", "name", "types", "latitude", "longitude"}

\* Place.to_dict
to_dict(place) ==
    [place_id |-> place[1], name |-> place[2], types |-> place[3],
     latitude |-> place[4], longitude |-> place[5]]

\* Place(**place_dict) raises TypeError unless the keys are exactly the fields
PlaceArgsOk(place_dict) == DOMAIN place_dict = PlaceKeys

PlaceFromDict(place_dict) ==
    <<place_dict.place_id, place_dict.name, place_dict.types,
      place_dict.latitude, place_dict.longitude>>

-----------------------------------------------------------------------------
(* The extractor *)

\* PlacesExtractor.__init__
NewExtractor ==
    [seen_place_ids |-> {},
     places |-> <<>>,
     total_api_calls |-> 0,
     total_duplicates_skipped |-> 0,
     current_cell_index |-> 0]

\* process_result without the deduplication check of lines 375-377
process_result_no_dedup(self, result) ==
    LET place_id == Get(result, "place_id", "")
        place == <<place_id, Get(result, "name", ""), Get(result, "types", <<>>),
                   Get(Get(Get(result, "geometry", EmptyDict),
                           "location", EmptyDict), "lat", 0),
                   Get(Get(Get(result, "geometry", EmptyDict),
                           "location", EmptyDict), "lng", 0)>>
    IN  IF place_id = ""
        THEN [self |-> self, raised |-> FALSE]
        ELSE [self |-> [self EXCEPT
                          !.seen_place_ids = @ \cup {place_id},
                          !.places = DictSet(@, place_id, place)],
              raised |-> FALSE]

\* process_result that counts a duplicate and then stores it (last writer wins)
process_result_merge(self, result) ==
    LET place_id == Get(result, "place_id", "")
        r == process_result_no_dedup(self, result)
    IN  IF place_id # "" /\ place_id \in self.seen_place_ids
        THEN [r EXCEPT !.self.total_duplicates_skipped = @ + 1]
        ELSE r

\* process_result that reads the geometry before it tests the place_id, and
\* counts a record without place_id as a duplicate
process_result_late_check(self, result) ==
    LET place_id == Get(result, "place_id", "")
        geometry == Get(result, "geometry", EmptyDict)
    IN  IF geometry = PyNone
        THEN [self |-> self, raised |-> TRUE]
        ELSE IF place_id = "" \/ place_id \in self.seen_place_ids
        THEN [self |-> [self EXCEPT !.total_duplicates_skipped = @ + 1],
              raised |-> FALSE]
        ELSE process_result_no_dedup(self, result)

\* PlacesExtractor.process_result: the new extractor state, and whether the
\* call raised (a None geometry or location has no .get)
process_result(self, result) ==
    LET place_id == Get(result, "place_id", "")
    IN  IF place_id = ""
        THEN [self |-> self, raised |-> FALSE]
        ELSE IF place_id \in self.seen_place_ids
        THEN [self |-> [self EXCEPT !.total_duplicates_skipped = @ + 1],
              raised |-> FALSE]
        ELSE LET name == Get(result, "name", "")
                 types == Get(result, "types", <<>>)
                 geometry == Get(result, "geometry", EmptyDict)
             IN  IF geometry = PyNone
                 THEN [self |-> self, raised |-> TRUE]
                 ELSE LET location == Get(geometry, "location", EmptyDict)
                      IN  IF location = PyNone
                          THEN [self |-> self, raised |-> TRUE]
                          ELSE LET latitude == Get(location, "lat", 0)
                                   longitude == Get(location, "lng", 0)
                                   place == <<place_id, name, types,
                                              latitude, longitude>>
                               IN  [self |-> [self EXCEPT
                                        !.seen_place_ids = @ \cup {place_id},
                                        !.places = DictSet(@, place_id, place)],
                                    raised |-> FALSE]

\* process_result(result) left by a KeyboardInterrupt between lines 398 and
\* 399: the id is added to seen_place_ids and the Place is not stored.  A
\* call that returns or raises before line 398 changes nothing there.
process_result_interrupted(self, result) ==
    LET r == process_result(self, result)
    IN  IF r.raised \/ r.self.seen_place_ids = self.seen_place_ids
        THEN self
        ELSE [self EXCEPT !.seen_place_ids = r.self.seen_place_ids]

-----------------------------------------------------------------------------
(* Files *)

NoFile == [exists |-> FALSE]

\* a file json.load cannot parse (empty, truncated, not JSON)
Unparseable == [exists |-> TRUE, json |-> FALSE]

JsonFile(data) == [exists |-> TRUE, json |-> TRUE, data |-> data]

-----------------------------------------------------------------------------
(* Checkpoint store *)

Timestamp == "ts"

\* save_checkpoint that writes the counters as 0
save_checkpoint_no_counters(self) ==
    {JsonFile(
        [checkpoint |->
            [last_completed_cell_index |-> self.current_cell_index,
             total_unique_places |-> Len(self.places),
             total_api_calls |-> 0,
             total_duplicates_skipped |-> 0,
             timestamp |-> Timestamp],
         seen_place_ids |-> l,
         places |-> [i \in DOMAIN self.places |-> to_dict(DictValues(self.places)[i])]])
     : l \in SetToLists(self.seen_place_ids)}

\* PlacesExtractor.save_checkpoint: the contents the file can get (one per
\* order in which list(self.seen_place_ids) can come out)
save_checkpoint(self) ==
    {JsonFile(
        [checkpoint |->
            [last_completed_cell_index |-> self.current_cell_index,
             total_unique_places |-> Len(self.places),
             total_api_calls |-> self.total_api_calls,
             total_duplicates_skipped |-> self.total_duplicates_skipped,
             timestamp |-> Timestamp],
         seen_place_ids |-> l,
         places |-> [i \in DOMAIN self.places |-> to_dict(DictValues(self.places)[i])]])
     : l \in SetToLists(self.seen_place_ids)}

\* the loop of load_checkpoint over checkpoint_data['places'], from entry i:
\* the dict after the loop and whether Place(**place_dict) raised on the way
RECURSIVE LoadPlaces(_, _, _)
LoadPlaces(places, place_dicts, i) ==
    IF i > Len(place_dicts)
    THEN [places |-> places, raised |-> FALSE]
    ELSE IF ~PlaceArgsOk(place_dicts[i])
    THEN [places |-> places, raised |-> TRUE]
    ELSE LET place == PlaceFromDict(place_dicts[i])
         IN  LoadPlaces(DictSet(places, place[1], place), place_dicts, i + 1)

\* load_checkpoint with json.load outside the try block
load_checkpoint_raises(self, file) ==
    IF ~file.exists
    THEN [self |-> self, ret |-> <<>>, raised |-> FALSE]
    ELSE IF ~file.json
    THEN [self |-> self, ret |-> <<0>>, raised |-> TRUE]
    ELSE [self |-> self, ret |-> <<>>, raised |-> FALSE]

\* PlacesExtractor.load_checkpoint: the new extractor state, the value
\* returned, and whether an exception left the method (none does: the try
\* block covers every statement after the os.path.exists test)
load_checkpoint(self, file) ==
    LET None(s) == [self |-> s, ret |-> <<>>, raised |-> FALSE]
    IN  IF ~file.exists THEN None(self)
        ELSE IF ~file.json THEN None(self)
        ELSE LET checkpoint_data == file.data
             IN  IF "checkpoint" \notin DOMAIN checkpoint_data THEN None(self)
                 ELSE IF "seen_place_ids" \notin DOMAIN checkpoint_data THEN None(self)
                 ELSE
    LET checkpoint == checkpoint_data.checkpoint
        s1 == [self EXCEPT !.seen_place_ids = Range(checkpoint_data.seen_place_ids)]
    IN  IF "places" \notin DOMAIN checkpoint_data THEN None(s1)
        ELSE
    LET lp == LoadPlaces(s1.places, checkpoint_data.places, 1)
        s2 == [s1 EXCEPT !.places = lp.places]
    IN  IF lp.raised THEN None(s2)
        ELSE IF "total_api_calls" \notin DOMAIN checkpoint THEN None(s2)
        ELSE
    LET s3 == [s2 EXCEPT !.total_api_calls = checkpoint.total_api_calls]
    IN  IF "total_duplicates_skipped" \notin DOMAIN checkpoint THEN None(s3)
        ELSE
    LET s4 == [s3 EXCEPT !.total_duplicates_skipped =
                             checkpoint.total_duplicates_skipped]
    IN  IF "last_completed_cell_index" \notin DOMAIN checkpoint THEN None(s4)
        ELSE IF "timestamp" \notin DOMAIN checkpoint THEN None(s4)
        ELSE [self |-> s4,
              ret |-> <<checkpoint.last_completed_cell_index + 1>>,
              raised |-> FALSE]

-----------------------------------------------------------------------------
(* Final output *)

\* str.lower() on the names of the model
Lower(name) ==
    CASE name = "Apple" -> "apple"
      [] name = "Banana" -> "banana"
      [] name = "Cherry" -> "cherry"
      [] OTHER -> name

\* the order of Python's str comparison (by code point: upper case before
\* lower case) on the names of the model and their lowercased forms
StrRank(s) ==
    CASE s = "" -> 0
      [] s = "Apple" -> 1
      [] s = "Banana" -> 2
      [] s = "Cherry" -> 3
      [] s = "apple" -> 4
      [] s = "banana" -> 5
      [] s = "cherry" -> 6

\* the sort key without .lower()
SortKey_case_sensitive(place_dict) == StrRank(place_dict.name)

\* key=lambda x: x['name'].lower()
SortKey(place_dict) == StrRank(Lower(place_dict.name))

\* insert x into the sorted list l after every element whose key is <= x's
RECURSIVE InsertSorted(_, _)
InsertSorted(l, x) ==
    IF l = <<>> THEN <<x>>
    ELSE IF SortKey(Head(l)) <= SortKey(x)
    THEN <<Head(l)>> \o InsertSorted(Tail(l), x)
    ELSE <<x>> \o l

\* list.sort(key=lambda x: x['name'].lower()): a stable sort
RECURSIVE SortByName(_)
SortByName(l) ==
    IF l = <<>> THEN <<>>
    ELSE InsertSorted(SortByName(SubSeq(l, 1, Len(l) - 1)), l[Len(l)])

\* PlacesExtractor.save_final_output: the content written to OUTPUT_FILE
save_final_output(self) ==
    JsonFile(SortByName([i \in DOMAIN self.places |->
                            to_dict(DictValues(self.places)[i])]))

-----------------------------------------------------------------------------
(* Raw results of the remote API used in the model *)

Geometry(lat, lng) == [location |-> [lat |-> lat, lng |-> lng]]

ResBanana1 ==
    [place_id |-> "p1", name |-> "Banana", types |-> <<"cafe">>,
     geometry |-> Geometry(1, 2)]

\* the same place_id as ResBanana1, every other field different
ResApple1 ==
    [place_id |-> "p1", name |-> "apple", types |-> <<"bar", "food">>,
     geometry |-> Geometry(3, 4)]

\* no name, types or geometry: process_result fills in the defaults
ResBare2 == [place_id |-> "p2"]

ResCherry3 ==
    [place_id |-> "p3", name |-> "Cherry", types |-> <<"cafe">>,
     geometry |-> Geometry(5, 6)]

\* the name of ResApple1 in another case, under another place_id
ResApple4 ==
    [place_id |-> "p4", name |-> "Apple", types |-> <<"cafe">>,
     geometry |-> Geometry(7, 8)]

\* the name of ResBanana1 under another place_id
ResBanana5 ==
    [place_id |-> "p5", name |-> "Banana", types |-> <<>>,
     geometry |-> Geometry(9, 9)]

\* no place_id key, and a geometry that is None
ResNoId == [name |-> "apple", geometry |-> PyNone]

\* an empty place_id
ResEmptyId ==
    [place_id |-> "", name |-> "Banana", types |-> <<"cafe">>,
     geometry |-> Geometry(1, 2)]

CollectorResults ==
    {ResBanana1, ResApple1, ResBare2, ResNoId, ResEmptyId}

-----------------------------------------------------------------------------
(* CollectorSpec: the methods of one extractor, and the construction of a *)
(* new one, invoked in any order on any of CollectorResults.              *)

\* no search_with_retry call is in progress
NoSearch == [status |-> "none"]

\* generate_grid is not part of the specification
NoGrid == [status |-> "none"]

\* the viewer is not part of the specification
NoViewer == [status |-> "none"]

NoOp == [name |-> "none", arg |-> EmptyDict, raised |-> FALSE, count |-> 0]

Invoked(name, arg, raised) ==
    /\ op.count < MaxOps
    /\ op' = [name |-> name, arg |-> arg, raised |-> raised,
              count |-> op.count + 1]

MainIdle ==
    UNCHANGED <<pc, idx, type_idx, results, start_from, api, sw, gg, vw, runs,
                search_log, mem_done, file_done>>

CollectorInit ==
    /\ extractor = NewExtractor
    /\ ckpt_file = NoFile
    /\ out_file = NoFile
    /\ pc = "library"
    /\ idx = 0
    /\ type_idx = 0
    /\ results = <<>>
    /\ resume_from = <<>>
    /\ start_from = 0
    /\ api = 0
    /\ runs = 0
    /\ search_log = <<>>
    /\ mem_done = {}
    /\ file_done = {}
    /\ op = NoOp
    /\ sw = NoSearch
    /\ gg = NoGrid
    /\ vw = NoViewer

CProcessResult(result) ==
    /\ extractor.total_duplicates_skipped < MaxDuplicates
    /\ LET r == process_result(extractor, result)
       IN  /\ extractor' = r.self
           /\ Invoked("process_result", result, r.raised)
    /\ UNCHANGED <<ckpt_file, out_file, resume_from>>
    /\ MainIdle

CSaveCheckpoint ==
    /\ ckpt_file' \in save_checkpoint(extractor)
    /\ Invoked("save_checkpoint", EmptyDict, FALSE)
    /\ UNCHANGED <<extractor, out_file, resume_from>>
    /\ MainIdle

CLoadCheckpoint ==
    /\ LET r == load_checkpoint(extractor, ckpt_file)
       IN  /\ extractor' = r.self
           /\ resume_from' = r.ret
           /\ Invoked("load_checkpoint", EmptyDict, r.raised)
    /\ UNCHANGED <<ckpt_file, out_file>>
    /\ MainIdle

CSaveFinalOutput ==
    /\ out_file' = save_final_output(extractor)
    /\ Invoked("save_final_output", EmptyDict, FALSE)
    /\ UNCHANGED <<extractor, ckpt_file, resume_from>>
    /\ MainIdle

\* extractor = PlacesExtractor(config, logger)
CNewExtractor ==
    /\ extractor' = NewExtractor
    /\ Invoked("__init__", EmptyDict, FALSE)
    /\ UNCHANGED <<ckpt_file, out_file, resume_from>>
    /\ MainIdle

\* self.total_api_calls += 1 and self.current_cell_index = idx, the two
\* assignments of the search methods to the fields a checkpoint stores
CSearchProgress ==
    /\ extractor.total_api_calls < MaxApiCalls
    /\ extractor' = [extractor EXCEPT !.total_api_calls = @ + 1,
                                      !.current_cell_index = @ + 1]
    /\ Invoked("search", EmptyDict, FALSE)
    /\ UNCHANGED <<ckpt_file, out_file, resume_from>>
    /\ MainIdle

CollectorNext ==
    \/ \E result \in CollectorResults : CProcessResult(result)
    \/ CSaveCheckpoint
    \/ CLoadCheckpoint
    \/ CSaveFinalOutput
    \/ CNewExtractor
    \/ CSearchProgress

CollectorSpec == CollectorInit /\ [][CollectorNext]_vars

-----------------------------------------------------------------------------
(* Configuration (class Config) *)

\* the bounding box, in hundredths of a degree
BBOX_NORTH == 1815
BBOX_SOUTH == 1795
BBOX_EAST == 0 - 1585
BBOX_WEST == 0 - 1610

\* the model's grid is smaller than the 10 x 10 grid of the code
GRID_LAT_DIVISIONS == 2
GRID_LNG_DIVISIONS == 2

SEARCH_RADIUS_METERS == 1000

\* the model queries the first two of the code's place types
PLACE_TYPES == <<"restaurant", "cafe">>

INCLUDE_GENERIC_SEARCH == TRUE

\* the delays, in tenths of a second
DELAY_BETWEEN_REQUESTS_SECONDS == 5
PAGINATION_DELAY_SECONDS == 25
INITIAL_RETRY_DELAY_SECONDS == 10

MAX_RETRIES == 5

ENABLE_CHECKPOINTING == TRUE

\* the model saves a checkpoint every 2 cells, the code every 10
CHECKPOINT_INTERVAL == 2

\* place_type None: a search without type filter
NoType == "<None>"

\* no next_page_token
NoToken == "<None>"

-----------------------------------------------------------------------------
(* Grid generation *)

\* the center without the half step: the south-west corner of the cell
Center_corner(low, high, i, divisions) ==
    <<divisions * low + i * (high - low), divisions>>

\* a coordinate is a fraction <<numerator, denominator>> of hundredths of a
\* degree: south + (row + 0.5) * ((north - south) / divisions)
Center(low, high, i, divisions) ==
    <<2 * divisions * low + (2 * i + 1) * (high - low), 2 * divisions>>

\* the fields of Config that generate_grid reads, as main passes them
GridConfig ==
    [BBOX_NORTH |-> BBOX_NORTH, BBOX_SOUTH |-> BBOX_SOUTH,
     BBOX_EAST |-> BBOX_EAST, BBOX_WEST |-> BBOX_WEST,
     GRID_LAT_DIVISIONS |-> GRID_LAT_DIVISIONS,
     GRID_LNG_DIVISIONS |-> GRID_LNG_DIVISIONS]

\* the inner loop of generate_grid: the cells of one row, from column col
RECURSIVE GridRow(_, _, _)
GridRow(config, row, col) ==
    IF col >= config.GRID_LNG_DIVISIONS THEN <<>>
    ELSE <<[row |-> row, col |-> col,
            center_lat |-> Center(config.BBOX_SOUTH, config.BBOX_NORTH, row,
                                  config.GRID_LAT_DIVISIONS),
            center_lng |-> Center(config.BBOX_WEST, config.BBOX_EAST, col,
                                  config.GRID_LNG_DIVISIONS)]>>
         \o GridRow(config, row, col + 1)

\* the outer loop of generate_grid: the cells of the rows from row on
RECURSIVE GridRows(_, _)
GridRows(config, row) ==
    IF row >= config.GRID_LAT_DIVISIONS THEN <<>>
    ELSE GridRow(config, row, 0) \o GridRows(config, row + 1)

\* generate_grid that lists the cells column by column
generate_grid_column_major(config) ==
    LET R == config.GRID_LAT_DIVISIONS
        C == config.GRID_LNG_DIVISIONS
        row_major == GridRows(config, 0)
    IN  [raised |-> R = 0 \/ C = 0,
         cells |-> IF R <= 0 \/ C <= 0 THEN <<>>
                   ELSE [k \in 1..(R * C) |->
                            row_major[((k - 1) % R) * C + ((k - 1) \div R) + 1]]]

\* generate_grid(config): whether it raised (lines 236-237 divide by the
\* division counts: ZeroDivisionError) and the list of cells it returned
generate_grid(config) ==
    IF config.GRID_LAT_DIVISIONS = 0 \/ config.GRID_LNG_DIVISIONS = 0
    THEN [raised |-> TRUE, cells |-> <<>>]
    ELSE [raised |-> FALSE, cells |-> GridRows(config, 0)]

\* main, line 582: grid = generate_grid(config)
grid == generate_grid(GridConfig).cells

\* len(grid)
total_cells == Len(grid)

\* grid[idx] for the 0-based idx of the code
GridCell(i) == grid[i + 1]

-----------------------------------------------------------------------------
(* The remote API: a deterministic function of the request.  A response   *)
(* is a dict with 'status', 'results' and, when there is a further page,  *)
(* 'next_page_token'; a request can also raise.                           *)

Ok(res) == [raised |-> FALSE,
            response |-> [status |-> "OK", results |-> res]]

OkMore(res, token) ==
    [raised |-> FALSE,
     response |-> [status |-> "OK", results |-> res, next_page_token |-> token]]

ZeroResults == [raised |-> FALSE,
                response |-> [status |-> "ZERO_RESULTS", results |-> <<>>]]

Raises == [raised |-> TRUE]

\* the 0-based index of the cell whose center is location
CellOf(location) ==
    CHOOSE i \in 0..(total_cells - 1) :
        location = <<GridCell(i).center_lat, GridCell(i).center_lng>>

\* API 1: the places overlap between cells and types, one query has two
\* pages, one query fails on every attempt
Api1(cell, place_type, page_token) ==
    CASE cell = 0 /\ place_type = "restaurant" /\ page_token = NoToken ->
            Ok(<<ResBanana1>>)
      [] cell = 0 /\ place_type = "cafe" /\ page_token = NoToken ->
            Ok(<<ResApple1, ResBare2>>)
      [] cell = 0 /\ place_type = NoType /\ page_token = NoToken ->
            Raises
      [] cell = 1 /\ place_type = "restaurant" /\ page_token = NoToken ->
            OkMore(<<ResBare2>>, "page2")
      [] cell = 1 /\ place_type = "restaurant" /\ page_token = "page2" ->
            Ok(<<ResNoId>>)
      [] cell = 1 /\ place_type = NoType /\ page_token = NoToken ->
            Ok(<<ResCherry3>>)
      [] OTHER -> ZeroResults

\* API 2: every place is found by one query only, the last of its cell
Api2(cell, place_type, page_token) ==
    CASE cell = 0 /\ place_type = NoType /\ page_token = NoToken ->
            Ok(<<ResApple1>>)
      [] cell = 1 /\ place_type = "cafe" /\ page_token = NoToken ->
            OkMore(<<>>, "page2")
      [] cell = 1 /\ place_type = "cafe" /\ page_token = "page2" ->
            Raises
      [] cell = total_cells - 1 /\ place_type = NoType /\ page_token = NoToken ->
            Ok(<<ResEmptyId, ResCherry3>>)
      [] OTHER -> ZeroResults

Apis == {1, 2}

\* self.gmaps.places_nearby(**kwargs) against API a
places_nearby(a, location, radius, place_type, page_token) ==
    IF a = 1 THEN Api1(CellOf(location), place_type, page_token)
    ELSE Api2(CellOf(location), place_type, page_token)

-----------------------------------------------------------------------------
(* Search *)

\* search_with_retry from the request with page token `token` on, with
\* all_results and calls requests so far and retry_count failed attempts at
\* this page:
\* the list returned and the number of requests issued
RECURSIVE SearchFrom(_, _, _, _, _, _, _, _)
SearchFrom(a, location, radius, place_type, token, all_results, calls, retry_count) ==
    LET r == places_nearby(a, location, radius, place_type, token)
    IN  IF r.raised
        THEN IF retry_count + 1 >= MAX_RETRIES
             THEN [results |-> all_results, calls |-> calls + 1]
             ELSE SearchFrom(a, location, radius, place_type, token,
                             all_results, calls + 1, retry_count + 1)
        ELSE LET page == Get(r.response, "results", <<>>)
                 next_page_token == Get(r.response, "next_page_token", NoToken)
             IN  IF next_page_token # NoToken
                 THEN SearchFrom(a, location, radius, place_type, next_page_token,
                                 all_results \o page, calls + 1, 0)
                 ELSE [results |-> all_results \o page, calls |-> calls + 1]

\* PlacesExtractor.search_with_retry against API a
search_with_retry(a, location, radius, place_type) ==
    SearchFrom(a, location, radius, place_type, NoToken, <<>>, 0, 0)

\* search_types with the generic search first
search_types_generic_first == <<NoType>> \o PLACE_TYPES

\* search_types of search_grid_cell
search_types ==
    IF INCLUDE_GENERIC_SEARCH THEN Append(PLACE_TYPES, NoType) ELSE PLACE_TYPES

\* the search of search_grid_cell for grid[i] and search_types[t]
CellSearch(a, i, t) ==
    search_with_retry(a, <<GridCell(i).center_lat, GridCell(i).center_lng>>,
                      SEARCH_RADIUS_METERS, search_types[t])

\* for result in results: self.process_result(result)
RECURSIVE IngestAll(_, _)
IngestAll(self, rs) ==
    IF rs = <<>> THEN self
    ELSE IngestAll(process_result(self, Head(rs)).self, Tail(rs))

\* A run that is never stopped, as a function of the API.

\* the loop of search_grid_cell from search_types[t] on
RECURSIVE SearchCellFrom(_, _, _, _)
SearchCellFrom(self, a, i, t) ==
    IF t > Len(search_types) THEN self
    ELSE LET s == CellSearch(a, i, t)
             searched == [self EXCEPT !.total_api_calls = @ + s.calls]
         IN  SearchCellFrom(IngestAll(searched, s.results), a, i, t + 1)

\* PlacesExtractor.search_grid_cell on grid[i]
search_grid_cell(self, a, i) == SearchCellFrom(self, a, i, 1)

\* the loop of extract_all_places from cell i on (its checkpoints change no
\* field of the extractor)
RECURSIVE ExtractFrom(_, _, _)
ExtractFrom(self, a, i) ==
    IF i >= total_cells THEN self
    ELSE ExtractFrom(search_grid_cell([self EXCEPT !.current_cell_index = i], a, i),
                     a, i + 1)

\* extract_all_places(grid, start_from) on a new extractor
extract_all_places(a, from) == ExtractFrom(NewExtractor, a, from)

-----------------------------------------------------------------------------
(* Spec: the processes of main(), one after the other, on one disk.  A    *)
(* process can be interrupted (KeyboardInterrupt), fail (an exception in  *)
(* the try block of main) or be killed at any point, and the script can   *)
(* be started again.                                                      *)

MaxRuns == 2   \* processes started in a behaviour

Did(name) ==
    op' = [name |-> name, arg |-> EmptyDict, raised |-> FALSE, count |-> 0]

\* checkpoint files an earlier version, an editor or a failing disk can leave
InitialFiles ==
    {NoFile,
     Unparseable,
     JsonFile([seen_place_ids |-> <<"p1">>, places |-> <<>>]),
     JsonFile([checkpoint |-> [last_completed_cell_index |-> 1,
                               total_unique_places |-> 1,
                               total_api_calls |-> 4,
                               total_duplicates_skipped |-> 0,
                               timestamp |-> Timestamp],
               seen_place_ids |-> <<"p1", "p3">>,
               places |-> <<[place_id |-> "p1", name |-> "Banana"]>>]),
     JsonFile([checkpoint |-> [last_completed_cell_index |-> 1,
                               total_unique_places |-> 0,
                               total_duplicates_skipped |-> 0,
                               timestamp |-> Timestamp],
               seen_place_ids |-> <<>>,
               places |-> <<>>])}

MainInit(files) ==
    /\ extractor = NewExtractor
    /\ ckpt_file \in files
    /\ out_file = NoFile
    /\ pc = "main"
    /\ idx = 0
    /\ type_idx = 0
    /\ results = <<>>
    /\ resume_from = <<>>
    /\ start_from = 0
    /\ api \in Apis
    /\ runs = 1
    /\ search_log = <<>>
    /\ mem_done = {}
    /\ file_done = {}
    /\ op = NoOp
    /\ sw = NoSearch
    /\ gg = NoGrid
    /\ vw = NoViewer

\* a first start on a disk without checkpoint file
Init == MainInit({NoFile})

\* a first start on a disk with any of InitialFiles
InitAnyFile == MainInit(InitialFiles)

\* main, lines 586-593: the extractor is new; load the checkpoint
MainLoadCheckpoint ==
    /\ pc = "main"
    /\ LET r == IF ENABLE_CHECKPOINTING
                THEN load_checkpoint(extractor, ckpt_file)
                ELSE [self |-> extractor, ret |-> <<>>, raised |-> FALSE]
           from == IF r.ret # <<>> THEN r.ret[1] ELSE 0
       IN  /\ extractor' = r.self
           /\ resume_from' = r.ret
           /\ start_from' = from
           /\ idx' = from
           /\ pc' = IF r.raised THEN "killed" ELSE "extract"
           /\ mem_done' = IF r.ret # <<>> THEN file_done ELSE {}
           /\ op' = [name |-> "load_checkpoint", arg |-> EmptyDict,
                     raised |-> r.raised, count |-> 0]
    /\ UNCHANGED <<ckpt_file, out_file, type_idx, results, api, sw, gg, vw, runs,
                   search_log, file_done>>

\* extract_all_places, lines 449-451: the next cell
CellStart ==
    /\ pc = "extract"
    /\ idx < total_cells
    /\ extractor' = [extractor EXCEPT !.current_cell_index = idx]
    /\ type_idx' = 1
    /\ pc' = "search"
    /\ Did("cell_start")
    /\ UNCHANGED <<ckpt_file, out_file, idx, results, resume_from, start_from,
                   api, sw, gg, vw, runs, search_log, mem_done, file_done>>

\* search_grid_cell, lines 415-428: one search_with_retry
Search ==
    /\ pc = "search"
    /\ LET s == CellSearch(api, idx, type_idx)
       IN  /\ extractor' = [extractor EXCEPT !.total_api_calls = @ + s.calls]
           /\ results' = s.results
    /\ search_log' = Append(search_log, <<idx, search_types[type_idx]>>)
    /\ pc' = "ingest"
    /\ Did("search_with_retry")
    /\ UNCHANGED <<ckpt_file, out_file, idx, type_idx, resume_from,
                   start_from, api, sw, gg, vw, runs, mem_done, file_done>>

\* search_grid_cell, lines 431-432: process_result on the next result; an
\* exception it raises reaches the handler of main, which opens the
\* checkpoint file for writing
Ingest ==
    /\ pc = "ingest"
    /\ results # <<>>
    /\ LET r == process_result(extractor, Head(results))
       IN  /\ extractor' = r.self
           /\ op' = [name |-> "process_result", arg |-> Head(results),
                     raised |-> r.raised, count |-> 0]
           /\ IF r.raised
              THEN /\ ckpt_file' = Unparseable
                   /\ pc' = "handler_write"
                   /\ UNCHANGED results
              ELSE /\ results' = Tail(results)
                   /\ UNCHANGED <<ckpt_file, pc>>
    /\ UNCHANGED <<out_file, idx, type_idx, resume_from, start_from, api, sw, gg, vw,
                   runs, search_log, mem_done, file_done>>

\* search_grid_cell, lines 415 and 435: every result is ingested; the delay,
\* then the next type or the end of the cell
EndSearch ==
    /\ pc = "ingest"
    /\ results = <<>>
    /\ mem_done' = mem_done \cup {<<idx, search_types[type_idx]>>}
    /\ IF type_idx < Len(search_types)
       THEN type_idx' = type_idx + 1 /\ pc' = "search"
       ELSE type_idx' = type_idx /\ pc' = "cell_end"
    /\ Did("end_search")
    /\ UNCHANGED <<extractor, ckpt_file, out_file, idx, results, resume_from,
                   start_from, api, sw, gg, vw, runs, search_log, file_done>>

\* line 465 without the interval test: a checkpoint after every cell
checkpoint_due_every_cell(i) == ENABLE_CHECKPOINTING

\* extract_all_places, line 465: whether a checkpoint is saved after cell i
checkpoint_due(i) ==
    ENABLE_CHECKPOINTING /\ (i + 1) % CHECKPOINT_INTERVAL = 0

\* extract_all_places, lines 465-466 and save_checkpoint, line 496: the
\* periodic checkpoint is due; open(CHECKPOINT_FILE, 'w') empties the file
CheckpointOpen ==
    /\ pc = "cell_end"
    /\ checkpoint_due(idx)
    /\ ckpt_file' = Unparseable
    /\ pc' = "ckpt_write"
    /\ Did("save_checkpoint_open")
    /\ UNCHANGED <<extractor, out_file, idx, type_idx, results, resume_from,
                   start_from, api, sw, gg, vw, runs, search_log, mem_done, file_done>>

\* save_checkpoint, lines 496-497: the snapshot is written and the file
\* closed; the loop goes on to the next cell
CheckpointWrite ==
    /\ pc = "ckpt_write"
    /\ ckpt_file' \in save_checkpoint(extractor)
    /\ file_done' = mem_done
    /\ idx' = idx + 1
    /\ pc' = "extract"
    /\ Did("save_checkpoint")
    /\ UNCHANGED <<extractor, out_file, type_idx, results, resume_from,
                   start_from, api, sw, gg, vw, runs, search_log, mem_done>>

\* extract_all_places, line 465: no checkpoint after this cell
NextCell ==
    /\ pc = "cell_end"
    /\ ~checkpoint_due(idx)
    /\ idx' = idx + 1
    /\ pc' = "extract"
    /\ Did("next_cell")
    /\ UNCHANGED <<extractor, ckpt_file, out_file, type_idx, results,
                   resume_from, start_from, api, sw, gg, vw, runs, search_log, mem_done,
                   file_done>>

\* extract_all_places returning before the range is exhausted
ExtractionComplete_any_time ==
    /\ pc = "extract"
    /\ pc' = "final"
    /\ Did("extraction_complete")
    /\ UNCHANGED <<extractor, ckpt_file, out_file, idx, type_idx, results,
                   resume_from, start_from, api, sw, gg, vw, runs, search_log, mem_done,
                   file_done>>

\* extract_all_places, lines 449 and 475-478: the range is exhausted
ExtractionComplete ==
    /\ pc = "extract"
    /\ idx >= total_cells
    /\ pc' = "final"
    /\ Did("extraction_complete")
    /\ UNCHANGED <<extractor, ckpt_file, out_file, idx, type_idx, results,
                   resume_from, start_from, api, sw, gg, vw, runs, search_log, mem_done,
                   file_done>>

\* main, line 600
SaveFinalOutput ==
    /\ pc = "final"
    /\ out_file' = save_final_output(extractor)
    /\ pc' = "cleanup"
    /\ Did("save_final_output")
    /\ UNCHANGED <<extractor, ckpt_file, idx, type_idx, results, resume_from,
                   start_from, api, sw, gg, vw, runs, search_log, mem_done, file_done>>

\* lines 603-608 without os.remove: the checkpoint file stays
Cleanup_keeps_checkpoint ==
    /\ pc = "cleanup"
    /\ pc' = "exit0"
    /\ Did("cleanup")
    /\ UNCHANGED <<extractor, ckpt_file, out_file, idx, type_idx, results,
                   resume_from, start_from, api, sw, gg, vw, runs, search_log, mem_done,
                   file_done>>

\* main, lines 603-608: the checkpoint file is removed; SUCCESS
Cleanup ==
    /\ pc = "cleanup"
    /\ IF ENABLE_CHECKPOINTING /\ ckpt_file.exists
       THEN ckpt_file' = NoFile /\ file_done' = {}
       ELSE UNCHANGED <<ckpt_file, file_done>>
    /\ pc' = "exit0"
    /\ Did("cleanup")
    /\ UNCHANGED <<extractor, out_file, idx, type_idx, results, resume_from,
                   start_from, api, sw, gg, vw, runs, search_log, mem_done>>

\* the positions inside the try block of main
InTry == {"extract", "search", "ingest", "cell_end", "ckpt_write", "final",
          "cleanup"}

\* main, lines 610-613: a KeyboardInterrupt inside the try block.  One that
\* arrives during a search_with_retry ends it after any number of its
\* requests (each counted before it is sent) and drops its results; one
\* that arrives during a process_result ends it before or after line 398.
\* The handler calls save_checkpoint, which opens the file for writing.
KeyboardInterrupt ==
    /\ pc \in InTry
    /\ IF pc = "search"
       THEN \E k \in 0..CellSearch(api, idx, type_idx).calls :
               extractor' = [extractor EXCEPT !.total_api_calls = @ + k]
       ELSE IF pc = "ingest" /\ results # <<>>
       THEN extractor' \in
               {extractor, process_result_interrupted(extractor, Head(results))}
       ELSE UNCHANGED extractor
    /\ ckpt_file' = Unparseable
    /\ pc' = "handler_write"
    /\ Did("KeyboardInterrupt")
    /\ UNCHANGED <<out_file, idx, type_idx, results, resume_from, start_from,
                   api, sw, gg, vw, runs, search_log, mem_done, file_done>>

\* main, lines 617-620: an exception inside the try block that is not
\* handled below it: an OSError of save_checkpoint, save_final_output or
\* os.remove
UnhandledError ==
    /\ pc \in {"ckpt_write", "final", "cleanup"}
    /\ ckpt_file' = Unparseable
    /\ pc' = "handler_write"
    /\ Did("Exception")
    /\ UNCHANGED <<extractor, out_file, idx, type_idx, results, resume_from,
                   start_from, api, sw, gg, vw, runs, search_log, mem_done, file_done>>

\* the handlers of main ending the process as a success
HandlerWrite_exits_zero ==
    /\ pc = "handler_write"
    /\ ckpt_file' \in save_checkpoint(extractor)
    /\ file_done' = mem_done
    /\ pc' = "exit0"
    /\ Did("save_checkpoint")
    /\ UNCHANGED <<extractor, out_file, idx, type_idx, results, resume_from,
                   start_from, api, sw, gg, vw, runs, search_log, mem_done>>

\* main, lines 613-615 and 620-621: the handler's save_checkpoint writes the
\* snapshot; sys.exit(1)
HandlerWrite ==
    /\ pc = "handler_write"
    /\ ckpt_file' \in save_checkpoint(extractor)
    /\ file_done' = mem_done
    /\ pc' = "exit1"
    /\ Did("save_checkpoint")
    /\ UNCHANGED <<extractor, out_file, idx, type_idx, results, resume_from,
                   start_from, api, sw, gg, vw, runs, search_log, mem_done>>

Ended == {"exit0", "exit1", "killed"}

\* the process is killed (SIGKILL, power loss), or ends on an exception
\* outside the try block or inside a handler: nothing more is written
Kill ==
    /\ pc \in InTry \cup {"main", "handler_write"}
    /\ pc' = "killed"
    /\ Did("kill")
    /\ UNCHANGED <<extractor, ckpt_file, out_file, idx, type_idx, results,
                   resume_from, start_from, api, sw, gg, vw, runs, search_log, mem_done,
                   file_done>>

\* the script is started again: main, lines 561-586
Restart ==
    /\ pc \in Ended
    /\ runs < MaxRuns
    /\ runs' = runs + 1
    /\ extractor' = NewExtractor
    /\ pc' = "main"
    /\ idx' = 0
    /\ type_idx' = 0
    /\ results' = <<>>
    /\ resume_from' = <<>>
    /\ start_from' = 0
    /\ search_log' = <<>>
    /\ mem_done' = {}
    /\ Did("main")
    /\ UNCHANGED <<ckpt_file, out_file, api, sw, gg, vw, file_done>>

Next ==
    \/ MainLoadCheckpoint
    \/ CellStart
    \/ Search
    \/ Ingest
    \/ EndSearch
    \/ CheckpointOpen
    \/ CheckpointWrite
    \/ NextCell
    \/ ExtractionComplete
    \/ SaveFinalOutput
    \/ Cleanup
    \/ KeyboardInterrupt
    \/ UnhandledError
    \/ HandlerWrite
    \/ Kill
    \/ Restart

Spec == Init /\ [][Next]_vars

SpecAnyFile == InitAnyFile /\ [][Next]_vars

\* Spec of a process that takes its next step as long as it has one
FairSpec == Init /\ [][Next]_vars /\ WF_vars(Next)

-----------------------------------------------------------------------------
(* SearchSpec: search_grid_cell on cell 0 of a new extractor, one request  *)
(* of search_with_retry at a time, against an API that answers every       *)
(* request in any of its ways: it raises, or it responds with a page and   *)
(* a cursor, with a last page, with ZERO_RESULTS or with an error status.  *)

MaxPages == 3    \* pages the API serves for one query
MaxRaises == 6   \* requests the API fails while the cell is searched
MaxFairPages == 2   \* pages served for one query when failures are unbounded

\* a response whose status is neither OK nor ZERO_RESULTS
Denied == [raised |-> FALSE,
           response |-> [status |-> "REQUEST_DENIED", results |-> <<>>]]

\* the results on page p of a query
PageResults(p) ==
    CASE p = 1 -> <<ResBanana1>>
      [] p = 2 -> <<ResApple1>>
      [] OTHER -> <<ResBare2>>

\* the cursor that leads to page p
PageToken(p) ==
    CASE p = 2 -> "page2"
      [] p = 3 -> "page3"
      [] OTHER -> "page4"

\* the ways an API that serves `pages` pages for a query can answer the
\* request that follows page_num pages
Served(pages, page_num, may_raise) ==
    {ZeroResults, Denied, Ok(PageResults(page_num + 1))}
        \cup (IF may_raise THEN {Raises} ELSE {})
        \cup (IF page_num + 1 < pages
              THEN {OkMore(PageResults(page_num + 1), PageToken(page_num + 2))}
              ELSE {})

\* the ways the API can answer the request that follows page_num pages,
\* after it has failed `failures` requests
Responses(page_num, failures) ==
    Served(MaxPages, page_num, failures < MaxRaises)

\* history: a request sent with the page token `token` (NoToken: none)
Requested(token) == [ev |-> "request", token |-> token, seconds |-> 0]

\* history: a time.sleep; why is "backoff" (line 355), "cooldown" (line 333)
\* or "delay" (lines 339 and 435)
Slept(why, seconds) == [ev |-> why, token |-> NoToken, seconds |-> seconds]

\* search_with_retry, lines 286-292: the locals when the first request is due
NewSearch(place_type) ==
    [status |-> "request",
     place_type |-> place_type,
     all_results |-> <<>>,
     next_page_token |-> NoToken,
     page_num |-> 0,
     retry_count |-> 0,
     delay |-> INITIAL_RETRY_DELAY_SECONDS,
     exhausted |-> FALSE,
     trace |-> <<>>,
     answers |-> <<>>]

\* any answer but a response with status OK counts as a failed attempt
Failed_unless_ok(r) == r.raised \/ r.response.status # "OK"

\* lines 295-342: the attempt ends in the except clause
Failed(r) == r.raised

\* the backoff delay stays as it is
NextDelay_constant(delay) == delay

\* line 356: delay *= 2
NextDelay(delay) == 2 * delay

\* the sleeps after a page, without the one of line 333
AfterPage_no_cooldown == <<Slept("delay", DELAY_BETWEEN_REQUESTS_SECONDS)>>

\* lines 333 and 339: the sleeps after a page that carries a next_page_token
AfterPage ==
    <<Slept("cooldown", PAGINATION_DELAY_SECONDS),
      Slept("delay", DELAY_BETWEEN_REQUESTS_SECONDS)>>

\* search_grid_cell goes on to the next type without a sleep
AfterSearch_no_delay == <<>>

\* line 435: the sleep after the results of a search are processed
AfterSearch == <<Slept("delay", DELAY_BETWEEN_REQUESTS_SECONDS)>>

\* the retries are exhausted and the call does not return
GiveUp_hangs(f) == [f EXCEPT !.exhausted = TRUE]

\* the retries are exhausted and the pages fetched so far are dropped
GiveUp_drops_pages(f) ==
    [f EXCEPT !.status = "returned", !.exhausted = TRUE, !.all_results = <<>>]

\* lines 348-352: the retries are exhausted; return all_results
GiveUp(f) == [f EXCEPT !.status = "returned", !.exhausted = TRUE]

\* the next page goes on with the attempts and the delay of the last one
NextPage_keeps_budget(f) == f

\* lines 290-292: the outer loop starts the retry loop of the next page
NextPage(f) ==
    [f EXCEPT !.retry_count = 0, !.delay = INITIAL_RETRY_DELAY_SECONDS]

\* one pass of the retry loop, lines 294-356, with answer r of the API to
\* the request: the frame when the next request is due or the call returns
Attempt(f, r) ==
    LET sent == [f EXCEPT !.trace = Append(@, Requested(f.next_page_token)),
                          !.answers = Append(@, r)]
    IN  IF Failed(r)
        THEN LET counted == [sent EXCEPT !.retry_count = @ + 1]
             IN  IF counted.retry_count >= MAX_RETRIES
                 THEN GiveUp(counted)
                 ELSE [counted EXCEPT
                          !.trace = Append(@, Slept("backoff", f.delay)),
                          !.delay = NextDelay(@)]
        ELSE LET token == Get(r.response, "next_page_token", NoToken)
                 fetched == [sent EXCEPT
                                !.all_results =
                                    @ \o Get(r.response, "results", <<>>),
                                !.page_num = @ + 1,
                                !.next_page_token = token]
             IN  IF token # NoToken
                 THEN NextPage([fetched EXCEPT !.trace = @ \o AfterPage])
                 ELSE [fetched EXCEPT !.status = "returned"]

SearchInit ==
    /\ extractor = NewExtractor
    /\ ckpt_file = NoFile
    /\ out_file = NoFile
    /\ pc = "sw_call"
    /\ idx = 0
    /\ type_idx = 1
    /\ results = <<>>
    /\ resume_from = <<>>
    /\ start_from = 0
    /\ api = 0
    /\ runs = 1
    /\ search_log = <<>>
    /\ mem_done = {}
    /\ file_done = {}
    /\ op = NoOp
    /\ sw = NoSearch
    /\ gg = NoGrid
    /\ vw = NoViewer

\* what SearchSpec never changes
SearchIdle ==
    UNCHANGED <<ckpt_file, out_file, idx, resume_from, start_from, runs,
                mem_done, file_done, gg, vw>>

\* search_grid_cell, lines 415-428: search_with_retry is called
SwCall ==
    /\ pc = "sw_call"
    /\ sw' = NewSearch(search_types[type_idx])
    /\ search_log' = Append(search_log, <<idx, search_types[type_idx]>>)
    /\ pc' = "sw_request"
    /\ Did("search_with_retry")
    /\ UNCHANGED <<extractor, type_idx, results, api>>
    /\ SearchIdle

\* search_with_retry, lines 294-361: one request and the answer to it, of
\* an API that fails MaxRaises requests at most (budgeted) or any number
SwAnswer(budgeted) ==
    /\ sw.retry_count < MAX_RETRIES
    /\ extractor' = [extractor EXCEPT !.total_api_calls = @ + 1]
    /\ \E r \in IF budgeted THEN Responses(sw.page_num, api)
                           ELSE Served(MaxFairPages, sw.page_num, TRUE) :
          /\ sw' = Attempt(sw, r)
          /\ api' = IF budgeted /\ r.raised THEN api + 1 ELSE api
    /\ IF sw'.status = "returned"
       THEN results' = sw'.all_results /\ pc' = "sw_ingest"
       ELSE UNCHANGED <<results, pc>>
    /\ Did("places_nearby")
    /\ UNCHANGED <<type_idx, search_log>>
    /\ SearchIdle

\* a request to the API that fails MaxRaises requests at most
SwRequest ==
    /\ pc = "sw_request"
    /\ SwAnswer(TRUE)

\* search_grid_cell, lines 431-432: process_result on the next result; an
\* exception it raises leaves search_grid_cell
SwIngest ==
    /\ pc = "sw_ingest"
    /\ results # <<>>
    /\ LET r == process_result(extractor, Head(results))
       IN  /\ extractor' = r.self
           /\ op' = [name |-> "process_result", arg |-> Head(results),
                     raised |-> r.raised, count |-> 0]
           /\ IF r.raised
              THEN pc' = "sw_raised" /\ UNCHANGED results
              ELSE results' = Tail(results) /\ UNCHANGED pc
    /\ UNCHANGED <<type_idx, search_log, sw, api>>
    /\ SearchIdle

\* search_grid_cell, lines 415 and 435: every result is ingested; the delay,
\* then the next type or the end of the cell
SwEndSearch ==
    /\ pc = "sw_ingest"
    /\ results = <<>>
    /\ sw' = [sw EXCEPT !.trace = @ \o AfterSearch]
    /\ IF type_idx < Len(search_types)
       THEN type_idx' = type_idx + 1 /\ pc' = "sw_call"
       ELSE type_idx' = type_idx /\ pc' = "sw_done"
    /\ Did("end_search")
    /\ UNCHANGED <<extractor, results, search_log, api>>
    /\ SearchIdle

SearchNext ==
    \/ SwCall
    \/ SwRequest
    \/ SwIngest
    \/ SwEndSearch

SearchSpec == SearchInit /\ [][SearchNext]_vars

\* a request to an API that can fail any request
SwRequestAny ==
    /\ pc = "sw_request"
    /\ SwAnswer(FALSE)

SearchFairNext ==
    \/ SwCall
    \/ SwRequestAny
    \/ SwIngest
    \/ SwEndSearch

\* SearchSpec without a bound on the failures of the API; the process
\* takes its next step as long as it has one
SearchFairSpec ==
    SearchInit /\ [][SearchFairNext]_vars /\ WF_vars(SearchFairNext)

-----------------------------------------------------------------------------
(* GridSpec: generate_grid called, once and again, on a Config with any of *)
(* a few bounding boxes and any division counts, zero and negative too.    *)

MaxDivisions == 3   \* largest division count
MaxGridCalls == 2   \* calls of generate_grid on the Config

\* boxes as <<north, south, east, west>>: the one of class Config, the box
\* (0,0)-(2,2), and one of other proportions
GridBoxes == {<<BBOX_NORTH, BBOX_SOUTH, BBOX_EAST, BBOX_WEST>>,
              <<2, 0, 2, 0>>,
              <<1, 0 - 1, 7, 1>>}

GridConfigs ==
    {[BBOX_NORTH |-> box[1], BBOX_SOUTH |-> box[2],
      BBOX_EAST |-> box[3], BBOX_WEST |-> box[4],
      GRID_LAT_DIVISIONS |-> rows, GRID_LNG_DIVISIONS |-> columns] :
        box \in GridBoxes,
        rows \in (0 - 1)..MaxDivisions,
        columns \in (0 - 1)..MaxDivisions}

GridInit ==
    /\ extractor = NewExtractor
    /\ ckpt_file = NoFile
    /\ out_file = NoFile
    /\ pc = "grid"
    /\ idx = 0
    /\ type_idx = 0
    /\ results = <<>>
    /\ resume_from = <<>>
    /\ start_from = 0
    /\ api = 0
    /\ runs = 0
    /\ search_log = <<>>
    /\ mem_done = {}
    /\ file_done = {}
    /\ op = NoOp
    /\ sw = NoSearch
    /\ vw = NoViewer
    /\ \E config \in GridConfigs :
          gg = [status |-> "config", config |-> config, cells |-> <<>>,
                calls |-> 0, before |-> NoGrid]

\* grid = generate_grid(config), as main does at each start (line 582)
GenerateGrid ==
    /\ pc = "grid"
    /\ gg.calls < MaxGridCalls
    /\ LET r == generate_grid(gg.config)
       IN  gg' = [gg EXCEPT
                     !.status = IF r.raised THEN "raised" ELSE "returned",
                     !.cells = r.cells,
                     !.calls = @ + 1,
                     !.before = [status |-> gg.status, cells |-> gg.cells]]
    /\ Did("generate_grid")
    /\ UNCHANGED <<extractor, ckpt_file, out_file, pc, idx, type_idx, results,
                   resume_from, start_from, api, runs, search_log, mem_done,
                   file_done, sw, vw>>

GridNext == GenerateGrid

GridSpec == GridInit /\ [][GridNext]_vars

-----------------------------------------------------------------------------
(* ViewerSpec: the viewer (app.py, and app_secure.py after authentication) *)
(* handling DELETE /api/places requests in concurrent threads.  PLACES_FILE *)
(* has the name of Config.OUTPUT_FILE, so the file is out_file.             *)

MaxRequests == 2   \* DELETE requests handled concurrently

Requests == 1..MaxRequests

\* a record of the places file as delete_places reads it
ViewerPlace(id) == [id |-> id, name |-> "Banana"]

\* the ids a request can name
RequestIds == {"p1", "p2", "p3"}

\* contents of PLACES_FILE: none, not JSON, records with ids, a record
\* without 'id' among them, and the output of the extractor
PlacesFiles ==
    {NoFile,
     Unparseable,
     JsonFile(<<ViewerPlace("p1"), ViewerPlace("p2"), ViewerPlace("p3")>>),
     JsonFile(<<ViewerPlace("p1"), [name |-> "Cherry"]>>),
     JsonFile(<<to_dict(<<"p1", "Banana", <<"cafe">>, 1, 2>>)>>)}

\* file_lock is free
Unlocked == 0

\* a request that Flask has handed to delete_places
NewRequest(ids) ==
    [at |-> "received", ids |-> ids, places |-> <<>>, remaining |-> <<>>,
     code |-> 0, deleted_count |-> 0]

ViewerInit ==
    /\ extractor = NewExtractor
    /\ ckpt_file = NoFile
    /\ out_file \in PlacesFiles
    /\ pc = "viewer"
    /\ idx = 0
    /\ type_idx = 0
    /\ results = <<>>
    /\ resume_from = <<>>
    /\ start_from = 0
    /\ api = 0
    /\ runs = 0
    /\ search_log = <<>>
    /\ mem_done = {}
    /\ file_done = {}
    /\ op = NoOp
    /\ sw = NoSearch
    /\ gg = NoGrid
    /\ \E ids \in [Requests -> SUBSET RequestIds] :
          vw = [status |-> "serving", lock |-> Unlocked,
                req |-> [t \in Requests |-> NewRequest(ids[t])]]

\* what ViewerSpec never changes
ViewerIdle ==
    UNCHANGED <<extractor, ckpt_file, pc, idx, type_idx, results, resume_from,
                start_from, api, runs, search_log, mem_done, file_done, op,
                sw, gg>>

\* delete_places, lines 53-57: no ids, status 400
VReceive(t) ==
    /\ vw.req[t].at = "received"
    /\ vw' = IF vw.req[t].ids = {}
             THEN [vw EXCEPT !.req[t].at = "done", !.req[t].code = 400]
             ELSE [vw EXCEPT !.req[t].at = "load_places"]
    /\ UNCHANGED out_file
    /\ ViewerIdle

\* `with file_lock:` of load_places (line 23) and of save_places (line 32)
VAcquire(t) ==
    /\ vw.req[t].at \in {"load_places", "save_places"}
    /\ vw.lock = Unlocked
    /\ vw' = [vw EXCEPT !.lock = t,
                        !.req[t].at = IF @ = "load_places" THEN "loading"
                                                          ELSE "saving"]
    /\ UNCHANGED out_file
    /\ ViewerIdle

\* load_places, lines 24-27, then delete_places, line 63: the file is read
\* and the lock released; the records to keep are selected.  json.load
\* on a file that is not JSON and p['id'] on a record without 'id' raise:
\* status 500
VLoad(t) ==
    /\ vw.req[t].at = "loading"
    /\ LET places == IF out_file.exists THEN out_file.data ELSE <<>>
           keep(p) == p.id \notin vw.req[t].ids
       IN  vw' = IF out_file.exists /\ ~out_file.json
                 THEN [vw EXCEPT !.lock = Unlocked, !.req[t].at = "done",
                                 !.req[t].code = 500]
                 ELSE IF \E i \in DOMAIN places : "id" \notin DOMAIN places[i]
                 THEN [vw EXCEPT !.lock = Unlocked, !.req[t].at = "done",
                                 !.req[t].places = places,
                                 !.req[t].code = 500]
                 ELSE [vw EXCEPT !.lock = Unlocked,
                                 !.req[t].at = "save_places",
                                 !.req[t].places = places,
                                 !.req[t].remaining = SelectSeq(places, keep)]
    /\ UNCHANGED out_file
    /\ ViewerIdle

\* save_places, lines 33-34, then delete_places, lines 68-74: the records
\* kept are written and the lock released; success
VSave(t) ==
    /\ vw.req[t].at = "saving"
    /\ out_file' = JsonFile(vw.req[t].remaining)
    /\ vw' = [vw EXCEPT !.lock = Unlocked,
                        !.req[t].at = "done",
                        !.req[t].code = 200,
                        !.req[t].deleted_count =
                            Len(vw.req[t].places) - Len(vw.req[t].remaining)]
    /\ ViewerIdle

ViewerNext ==
    \/ \E t \in Requests : VReceive(t)
    \/ \E t \in Requests : VAcquire(t)
    \/ \E t \in Requests : VLoad(t)
    \/ \E t \in Requests : VSave(t)

ViewerSpec == ViewerInit /\ [][ViewerNext]_vars

-----------------------------------------------------------------------------
(* BatchSpec: a new extractor ingests a list of results with process_result, *)
(* one result at a time, and writes the final output at any point.          *)

MaxBatch == 3   \* results in the list

BatchResults ==
    {ResBanana1, ResApple1, ResBare2, ResCherry3, ResApple4, ResBanana5,
     ResNoId}

\* the lists of at most MaxBatch results
Batches == UNION {[1..n -> BatchResults] : n \in 0..MaxBatch}

BatchInit ==
    /\ extractor = NewExtractor
    /\ ckpt_file = NoFile
    /\ out_file = NoFile
    /\ pc = "batch"
    /\ idx = 0
    /\ type_idx = 0
    /\ results \in Batches
    /\ resume_from = <<>>
    /\ start_from = 0
    /\ api = 0
    /\ runs = 0
    /\ search_log = <<>>
    /\ mem_done = {}
    /\ file_done = {}
    /\ op = NoOp
    /\ sw = NoSearch
    /\ gg = NoGrid
    /\ vw = NoViewer

\* what BatchSpec never changes
BatchIdle ==
    UNCHANGED <<ckpt_file, idx, type_idx, resume_from, start_from, api,
                runs, search_log, mem_done, file_done, sw, gg, vw>>

\* for result in results: self.process_result(result), lines 431-432; an
\* exception ends the loop
BProcessResult ==
    /\ pc = "batch"
    /\ results # <<>>
    /\ LET r == process_result(extractor, Head(results))
       IN  /\ extractor' = r.self
           /\ op' = [name |-> "process_result", arg |-> Head(results),
                     raised |-> r.raised, count |-> op.count + 1]
           /\ pc' = IF r.raised THEN "raised" ELSE pc
    /\ results' = Tail(results)
    /\ UNCHANGED out_file
    /\ BatchIdle

\* PlacesExtractor.save_final_output
BSaveFinalOutput ==
    /\ pc = "batch"
    /\ out_file' = save_final_output(extractor)
    /\ op' = [op EXCEPT !.name = "save_final_output", !.arg = EmptyDict]
    /\ UNCHANGED <<extractor, results, pc>>
    /\ BatchIdle

BatchNext ==
    \/ BProcessResult
    \/ BSaveFinalOutput

BatchSpec == BatchInit /\ [][BatchNext]_vars

-----------------------------------------------------------------------------
(* Claims about the collector and the checkpoint store (CollectorSpec) *)

Ids == {"p1", "p2", "p3"}

NoDuplicates(ids) == \A i, j \in DOMAIN ids : ids[i] = ids[j] => i = j

WellFormed(file) == file.exists /\ file.json

\* the number of stored Places whose place_id is p
CountId(places, p) == Cardinality({i \in DOMAIN places : places[i][2][1] = p})

ResultsWithId(p) == {r \in CollectorResults : Get(r, "place_id", "") = p}

Malformed == ResultsWithId("")

\* C3: after any sequence of process_result, save_checkpoint and
\* load_checkpoint the place collection holds at most one Place per place_id,
\* and so do the places list of the checkpoint file and the final output.
C3_OnePlacePerId ==
    /\ NoDuplicates([i \in DOMAIN extractor.places |-> extractor.places[i][2][1]])
    /\ WellFormed(ckpt_file) =>
          NoDuplicates([i \in DOMAIN ckpt_file.data.places |->
                           ckpt_file.data.places[i].place_id])
    /\ WellFormed(out_file) =>
          NoDuplicates([i \in DOMAIN out_file.data |-> out_file.data[i].place_id])

\* a checkpoint with a place was loaded into an extractor that held that
\* place already, another place was ingested and the output written
C3_Witness ==
    /\ op.name = "save_final_output"
    /\ Len(extractor.places) = 2
    /\ WellFormed(ckpt_file) /\ Len(ckpt_file.data.places) = 1
    /\ resume_from # <<>>
    /\ Len(out_file.data) = 2

\* C4: from any collector state that has not seen an id, ingesting n >= 1
\* records with that id (whatever their other fields) leaves exactly one
\* stored Place with the id and raises the duplicate counter by n - 1.
C4_DedupIdempotent ==
    \A p \in Ids \ extractor.seen_place_ids :
        \A n \in 1..MaxIngest :
            \A rs \in [1..n -> ResultsWithId(p)] :
                LET after == IngestAll(extractor, rs)
                IN  /\ CountId(after.places, p) = 1
                    /\ p \in after.seen_place_ids
                    /\ after.total_duplicates_skipped =
                           extractor.total_duplicates_skipped + n - 1

\* p1 was ingested three times into a new extractor, last as ResApple1
C4_Witness ==
    /\ op.name = "process_result"
    /\ op.arg = ResApple1
    /\ op.count = 3
    /\ extractor.seen_place_ids = {"p1"}
    /\ CountId(extractor.places, "p1") = 1
    /\ extractor.total_duplicates_skipped = 2

\* C5: process_result on a record whose place_id has been seen changes the
\* duplicate counter only: the places (their order and every field) and the
\* seen ids stay as they were, whatever the fields of the new record.
C5_DuplicateFrame ==
    [][\A result \in CollectorResults :
          (/\ Get(result, "place_id", "") \in extractor.seen_place_ids
           /\ CProcessResult(result))
          => /\ extractor'.places = extractor.places
             /\ extractor'.seen_place_ids = extractor.seen_place_ids
             /\ extractor'.total_api_calls = extractor.total_api_calls
             /\ extractor'.current_cell_index = extractor.current_cell_index
             /\ extractor'.total_duplicates_skipped =
                    extractor.total_duplicates_skipped + 1]_vars

\* ResApple1 was ingested after ResBanana1 (same id, other fields) and the
\* stored Place is still that of ResBanana1
C5_Witness ==
    /\ op.name = "process_result"
    /\ op.arg = ResApple1
    /\ extractor.total_duplicates_skipped = 1
    /\ extractor.places = <<<<"p1", <<"p1", "Banana", <<"cafe">>, 1, 2>>>>>>
    /\ process_result(extractor, ResApple1).self.places = extractor.places

\* C6: process_result on a record without place_id (no key, or an empty one)
\* returns normally and changes nothing of the extractor: no Place, no seen
\* id, no duplicate counted.
C6_MalformedDropped ==
    [][\A result \in Malformed :
          CProcessResult(result) => /\ ~op'.raised
                                    /\ extractor' = extractor]_vars

\* a record without place_id was ingested into an extractor that holds a place
C6_Witness ==
    /\ op.name = "process_result"
    /\ op.arg = ResNoId
    /\ ~op.raised
    /\ Len(extractor.places) = 1
    /\ extractor.total_duplicates_skipped = 0

\* the integer fields of the extractor other than the duplicate counter
OtherCounters == {"total_api_calls", "current_cell_index"}

\* C7: every record dropped for a missing place_id is counted: a counter of
\* the extractor other than total_duplicates_skipped goes up by one.
C7_MalformedCounted ==
    [][\A result \in Malformed :
          CProcessResult(result)
          => \E counter \in OtherCounters :
                extractor'[counter] = extractor[counter] + 1]_vars

\* C8: a checkpoint saved from any collector state and loaded into a new
\* extractor gives back the same seen ids, the same places (every field, in
\* the same order) and the same API-call and duplicate counters, and
\* load_checkpoint returns last_completed_cell_index + 1.
C8_CheckpointRoundTrip ==
    \A file \in save_checkpoint(extractor) :
        LET r == load_checkpoint(NewExtractor, file)
        IN  /\ ~r.raised
            /\ r.self.seen_place_ids = extractor.seen_place_ids
            /\ r.self.places = extractor.places
            /\ r.self.total_api_calls = extractor.total_api_calls
            /\ r.self.total_duplicates_skipped = extractor.total_duplicates_skipped
            /\ r.ret = <<file.data.checkpoint.last_completed_cell_index + 1>>
            /\ r.ret = <<extractor.current_cell_index + 1>>

\* a state with two places, a duplicate and an API call was saved and then
\* loaded into a new extractor
C8_Witness ==
    /\ op.name = "load_checkpoint"
    /\ resume_from = <<2>>
    /\ ckpt_file \in save_checkpoint(extractor)
    /\ Len(extractor.places) = 2
    /\ extractor.total_duplicates_skipped = 1
    /\ extractor.total_api_calls = 1

-----------------------------------------------------------------------------
(* Claims about the runs of main (Spec, SpecAnyFile) *)

\* C1: with a deterministic API, a run that is stopped at any point
\* (interrupt, error or kill) and started again from the checkpoint it left
\* ends with the same places and the same output file as a run of
\* extract_all_places from cell 0 that was never stopped.
C1_ResumeEquivalent ==
    pc = "exit0" =>
        LET never_stopped == extract_all_places(api, 0)
        IN  /\ Range(DictValues(extractor.places))
                 = Range(DictValues(never_stopped.places))
            /\ out_file = save_final_output(never_stopped)

\* all searches of cell i are among the searches in done
FullyProcessed(done, i) ==
    \A t \in Range(PLACE_TYPES) \cup {NoType} : <<i, t>> \in done

\* C2: in every checkpoint written by save_checkpoint,
\* last_completed_cell_index is the highest index of a cell all of whose
\* searches were executed and ingested before the checkpoint was written.
C2_LastCompletedIsComplete ==
    WellFormed(ckpt_file) =>
        LET last == ckpt_file.data.checkpoint.last_completed_cell_index
        IN  /\ FullyProcessed(file_done, last)
            /\ \A j \in (last + 1)..(total_cells - 1) :
                   ~FullyProcessed(file_done, j)

\* the searches extract_all_places(grid, from) is to issue, in order: for
\* each cell from `from` on, the place types in list order, then the generic
ExpectedSearches(from) ==
    LET types == PLACE_TYPES \o <<NoType>>
        n == Len(types)
        cells == IF from < total_cells THEN total_cells - from ELSE 0
    IN  [k \in 1..(cells * n) |->
            <<from + ((k - 1) \div n), types[((k - 1) % n) + 1]>>]

IsPrefix(s, t) ==
    /\ Len(s) <= Len(t)
    /\ \A k \in 1..Len(s) : s[k] = t[k]

\* the place ids among the results of the search of cell i with place_type
FoundIds(a, i, place_type) ==
    LET found == search_with_retry(
                     a, <<GridCell(i).center_lat, GridCell(i).center_lng>>,
                     SEARCH_RADIUS_METERS, place_type).results
    IN  {Get(found[k], "place_id", "") : k \in DOMAIN found} \ {""}

\* C10: extract_all_places(grid, start_from) issues, for the cells from
\* start_from to the last in ascending order, one search per place type in
\* list order and then one generic search, and nothing else; when a search
\* starts every result of the searches before it is ingested; once the
\* loop is over every one of these searches was issued.
C10_SearchOrder ==
    /\ IsPrefix(search_log, ExpectedSearches(start_from))
    /\ pc \in {"final", "cleanup", "exit0"} =>
          search_log = ExpectedSearches(start_from)
    /\ pc = "search" =>
          \A k \in DOMAIN search_log :
              FoundIds(api, search_log[k][1], search_log[k][2])
                  \subseteq extractor.seen_place_ids

\* a run resumed at cell 1 has issued all 9 searches of cells 1 to 3
C10_Witness ==
    /\ pc = "exit0"
    /\ start_from = 1
    /\ Len(search_log) = (total_cells - 1) * (Len(PLACE_TYPES) + 1)
    /\ Len(search_log) > Len(PLACE_TYPES) + 1

-----------------------------------------------------------------------------

\* a checkpoint file with every key load_checkpoint reads and with places
\* that carry exactly the fields of Place
ValidSnapshot(file) ==
    /\ file.exists
    /\ file.json
    /\ {"checkpoint", "seen_place_ids", "places"} \subseteq DOMAIN file.data
    /\ {"last_completed_cell_index", "total_api_calls",
        "total_duplicates_skipped", "timestamp"}
           \subseteq DOMAIN file.data.checkpoint
    /\ \A k \in DOMAIN file.data.places :
           DOMAIN file.data.places[k] = PlaceKeys

-----------------------------------------------------------------------------
(* Claims about the life cycle of a run (Spec) *)

\* the checkpoint file holds a snapshot whose last_completed_cell_index is i
SavedAfter(i) ==
    /\ WellFormed(ckpt_file)
    /\ ckpt_file.data.checkpoint.last_completed_cell_index = i

\* the positions of the loop of extract_all_places outside save_checkpoint
InLoop == {"extract", "search", "ingest", "cell_end"}

\* C11: with checkpointing enabled, once the loop has gone past cell idx - 1
\* the checkpoint file holds the snapshot saved after that cell exactly when
\* idx is a multiple of CHECKPOINT_INTERVAL, and it holds it, complete, before
\* the first search of cell idx is issued.
C11_CheckpointInterval ==
    (ENABLE_CHECKPOINTING /\ pc \in InLoop /\ idx > start_from) =>
        /\ SavedAfter(idx - 1) <=> (idx % CHECKPOINT_INTERVAL = 0)
        /\ (pc = "extract" /\ idx % CHECKPOINT_INTERVAL = 0) =>
               ckpt_file \in save_checkpoint(extractor)

\* the first search of cell 2 is about to be issued and the checkpoint saved
\* after cell 1 is on disk
C11_Witness ==
    /\ pc = "search"
    /\ type_idx = 1
    /\ idx = CHECKPOINT_INTERVAL
    /\ start_from = 0
    /\ search_log = SubSeq(ExpectedSearches(0), 1, idx * (Len(PLACE_TYPES) + 1))
    /\ SavedAfter(idx - 1)

\* the step is the entry of one of the two handlers of main
EntersHandler ==
    \/ op'.name \in {"KeyboardInterrupt", "Exception"}
    \/ op'.name = "process_result" /\ op'.raised

\* C12: a KeyboardInterrupt or an exception that leaves the try block of
\* main starts a checkpoint save at once; the process exits only after that
\* save, with status 1 and the complete snapshot of its state on disk; it
\* never exits with status 0 after such a failure.
C12_InterruptSavesThenFails ==
    [][/\ EntersHandler =>
             /\ pc \in InTry
             /\ pc' = "handler_write"
             /\ ckpt_file' = Unparseable
       /\ pc = "handler_write" => pc' \in {"exit1", "killed"}
       /\ pc' = "exit1" =>
             /\ pc = "handler_write"
             /\ extractor' = extractor
             /\ ckpt_file' \in save_checkpoint(extractor)
       /\ pc' = "exit0" => pc = "cleanup"]_vars

\* a process interrupted after it found a place has saved and exited with 1
C12_Witness ==
    /\ pc = "exit1"
    /\ op.name = "save_checkpoint"
    /\ ckpt_file \in save_checkpoint(extractor)
    /\ Len(extractor.places) > 0
    /\ out_file = NoFile

\* C13: the checkpoint file is deleted only by a run that has completed
\* every cell and has written the final output; a run that ends with status
\* 0 leaves the output and no checkpoint file, and the run started after it
\* extracts from cell 0.
C13_OutputThenCleanup ==
    [][/\ (ckpt_file.exists /\ ~ckpt_file'.exists) =>
             /\ pc = "cleanup"
             /\ idx = total_cells
             /\ out_file = save_final_output(extractor)
       /\ pc' = "exit0" =>
             /\ ~ckpt_file'.exists
             /\ out_file' = save_final_output(extractor')
       /\ (pc = "main" /\ pc' = "extract" /\ ~ckpt_file.exists) =>
             /\ start_from' = 0
             /\ idx' = 0]_vars

\* the run started after a successful one found no checkpoint file
C13_Witness ==
    /\ runs = 2
    /\ op.name = "load_checkpoint"
    /\ pc = "extract"
    /\ out_file.exists
    /\ ~ckpt_file.exists
    /\ start_from = 0

\* C14: a KeyboardInterrupt that arrives after a search has issued a request
\* lets the search finish: when the handler starts, every request of the
\* search was issued and every result it returned is ingested.
C14_InFlightSearchFinishes ==
    [][(/\ pc = "search"
        /\ op'.name = "KeyboardInterrupt"
        /\ extractor'.total_api_calls > extractor.total_api_calls)
       => LET s == CellSearch(api, idx, type_idx)
          IN  extractor' =
                  IngestAll([extractor EXCEPT !.total_api_calls = @ + s.calls],
                            s.results)]_vars

\* C20: whenever the checkpoint file exists a reader finds a complete
\* snapshot in it, also while save_checkpoint runs and after the writer was
\* killed.
C20_ReaderSeesCompleteSnapshot ==
    ckpt_file.exists => ValidSnapshot(ckpt_file)

-----------------------------------------------------------------------------
(* Claims about search_with_retry and search_grid_cell (SearchSpec) *)

Last(s) == s[Len(s)]

IsRequest(e) == e.ev = "request"

IsBackoff(e) == e.ev = "backoff"

IsCooldown(e) == e.ev = "cooldown"

\* the index in trace of its k-th request
RequestIndex(trace, k) ==
    CHOOSE i \in DOMAIN trace :
        /\ IsRequest(trace[i])
        /\ Cardinality({j \in 1..i : IsRequest(trace[j])}) = k

\* the results of the responses among answers, page after page
RECURSIVE Flatten(_)
Flatten(answers) ==
    IF answers = <<>> THEN <<>>
    ELSE (IF Head(answers).raised THEN <<>>
          ELSE Get(Head(answers).response, "results", <<>>))
         \o Flatten(Tail(answers))

\* the cursor a response carries
TokenOf(r) == Get(r.response, "next_page_token", NoToken)

\* search_with_retry has returned
Returned == sw.status = "returned"

\* the call has returned and every request of it was answered with a
\* response of status OK or ZERO_RESULTS
NoFailure ==
    /\ Returned
    /\ \A k \in DOMAIN sw.answers :
           /\ ~sw.answers[k].raised
           /\ sw.answers[k].response.status \in {"OK", "ZERO_RESULTS"}

\* C15: a query answered without failure by n pages, the first n - 1 with a
\* cursor, takes exactly n requests; the first carries no cursor and each
\* later one the cursor of the response before it; the pagination cooldown
\* is slept once between any two consecutive requests and n - 1 times in
\* all, so never after the last page; the list returned is the
\* concatenation of the pages in order.
C15_Pagination ==
    NoFailure =>
        LET n == Len(sw.answers)
            requests == SelectSeq(sw.trace, IsRequest)
            cooldowns == SelectSeq(sw.trace, IsCooldown)
        IN  /\ Len(requests) = n
            /\ requests[1].token = NoToken
            /\ \A k \in 1..(n - 1) :
                   /\ TokenOf(sw.answers[k]) # NoToken
                   /\ requests[k + 1].token = TokenOf(sw.answers[k])
                   /\ Cardinality(
                          {c \in RequestIndex(sw.trace, k)..RequestIndex(sw.trace, k + 1) :
                              sw.trace[c] = Slept("cooldown", PAGINATION_DELAY_SECONDS)})
                        = 1
            /\ TokenOf(sw.answers[n]) = NoToken
            /\ Len(cooldowns) = n - 1
            /\ sw.all_results = Flatten(sw.answers)

\* a query of three pages has returned their three results
C15_Witness ==
    /\ NoFailure
    /\ pc = "sw_ingest"
    /\ Len(sw.answers) = 3
    /\ Len(SelectSeq(sw.trace, IsCooldown)) = 2
    /\ results = <<ResBanana1, ResApple1, ResBare2>>

\* the call has returned and every request of it raised
AlwaysFailed ==
    /\ Returned
    /\ \A k \in DOMAIN sw.answers : sw.answers[k].raised

\* C16: when every request raises, search_with_retry sends exactly
\* MAX_RETRIES requests, sleeps between two consecutive ones a backoff of
\* INITIAL_RETRY_DELAY_SECONDS doubled after each failure, sleeps no backoff
\* after the last, and returns the empty list.
C16_AlwaysFailing ==
    AlwaysFailed =>
        LET requests == SelectSeq(sw.trace, IsRequest)
            backoffs == SelectSeq(sw.trace, IsBackoff)
        IN  /\ Len(sw.answers) = MAX_RETRIES
            /\ Len(requests) = MAX_RETRIES
            /\ Len(backoffs) = MAX_RETRIES - 1
            /\ \A k \in 1..(MAX_RETRIES - 1) :
                   /\ IsRequest(sw.trace[2 * k - 1])
                   /\ sw.trace[2 * k] =
                          Slept("backoff", INITIAL_RETRY_DELAY_SECONDS * 2 ^ (k - 1))
            /\ IsRequest(sw.trace[2 * MAX_RETRIES - 1])
            /\ \A k \in 1..(MAX_RETRIES - 2) :
                   backoffs[k].seconds < backoffs[k + 1].seconds
            /\ sw.all_results = <<>>
            /\ pc # "sw_raised"
            /\ pc = "sw_ingest" => results = <<>>

\* the first search of the cell has returned after MAX_RETRIES failures
C16_Witness ==
    /\ AlwaysFailed
    /\ pc = "sw_ingest"
    /\ type_idx = 1
    /\ Len(sw.answers) = MAX_RETRIES
    /\ extractor.total_api_calls = MAX_RETRIES
    /\ results = <<>>

\* the step is a request of search_with_retry answered with r
Answered(r) ==
    /\ pc = "sw_request"
    /\ sw'.answers = Append(sw.answers, r)

\* C17: a response whose status is neither OK nor ZERO_RESULTS has the
\* effect of a request that raised: the attempt is counted, the backoff is
\* slept and the same request is sent again, up to MAX_RETRIES attempts.
C17_StatusFailureRetried ==
    [][Answered(Denied) =>
          sw' = [Attempt(sw, Raises) EXCEPT !.answers = sw'.answers]]_vars

\* C18: a response with status ZERO_RESULTS ends the query: the attempt is
\* not counted as a failure, nothing is slept, no further request is sent
\* and search_with_retry returns the results of the pages before it.
C18_ZeroResultsTerminates ==
    [][Answered(ZeroResults) =>
          /\ sw'.status = "returned"
          /\ ~sw'.exhausted
          /\ sw'.retry_count = sw.retry_count
          /\ sw'.trace = Append(sw.trace, Requested(sw.next_page_token))
          /\ sw'.all_results = sw.all_results
          /\ results' = sw.all_results
          /\ pc' = "sw_ingest"]_vars

\* the second page of a query was ZERO_RESULTS and the first is returned
C18_Witness ==
    /\ Returned
    /\ pc = "sw_ingest"
    /\ Len(sw.answers) = 2
    /\ Last(sw.answers) = ZeroResults
    /\ results = PageResults(1)

\* the place ids of the results rs
IdsOf(rs) == {Get(rs[k], "place_id", "") : k \in DOMAIN rs} \ {""}

\* the search that has returned gave up on a page
GaveUp == Returned /\ sw.exhausted

\* C19: when the retries of a page are exhausted search_with_retry returns
\* the results of the pages fetched before it; search_grid_cell ingests
\* them without an exception and goes on to the next place type, or returns
\* to the loop over the cells after the last.
C19_ExhaustedReturnsPartial ==
    [][/\ (pc = "sw_request" /\ sw'.exhausted) =>
             /\ sw'.status = "returned"
             /\ pc' = "sw_ingest"
             /\ results' = Flatten(sw'.answers)
       /\ (GaveUp /\ pc = "sw_ingest") =>
             pc' \in {"sw_ingest", "sw_call", "sw_done"}
       /\ (GaveUp /\ pc = "sw_ingest" /\ pc' # "sw_ingest") =>
             /\ IdsOf(sw.all_results) \subseteq extractor.seen_place_ids
             /\ IF type_idx < Len(search_types)
                THEN pc' = "sw_call" /\ type_idx' = type_idx + 1
                ELSE pc' = "sw_done"]_vars

\* the first search gave up on its second page; the place of its first page
\* is ingested and the second search is about to be called
C19_Witness ==
    /\ GaveUp
    /\ pc = "sw_call"
    /\ type_idx = 2
    /\ sw.page_num = 1
    /\ Len(sw.answers) = 1 + MAX_RETRIES
    /\ sw.all_results = PageResults(1)
    /\ extractor.seen_place_ids = {"p1"}

-----------------------------------------------------------------------------
(* Claims about the final output and the order of ingestion (BatchSpec) *)

\* the Places of the extractor as dicts, in the order of the places dict
StoredDicts(self) ==
    [i \in DOMAIN self.places |-> to_dict(DictValues(self.places)[i])]

\* the names of a list of place dicts
Names(l) == [i \in DOMAIN l |-> l[i].name]

\* the rank of the lowercased name of a place dict in Python's str order
LowerRank(place_dict) == StrRank(Lower(place_dict.name))

\* C21: the final output holds every collected Place exactly once, in
\* ascending order of the lowercased names; places whose lowercased names
\* are equal come out in the order in which they were collected.
C21_SortedOutput ==
    op.name = "save_final_output" =>
        LET out == out_file.data
            stored == StoredDicts(extractor)
            Pos(d) == CHOOSE i \in DOMAIN stored : stored[i] = d
        IN  /\ Len(out) = Len(stored)
            /\ \A i \in DOMAIN stored :
                   Cardinality({k \in DOMAIN out : out[k] = stored[i]}) = 1
            /\ \A j, k \in DOMAIN out :
                   j < k =>
                       /\ LowerRank(out[j]) <= LowerRank(out[k])
                       /\ Lower(out[j].name) = Lower(out[k].name) =>
                              Pos(out[j]) < Pos(out[k])

\* places named Banana, apple and Cherry were collected in this order and
\* written as apple, Banana, Cherry
C21_Witness ==
    /\ op.name = "save_final_output"
    /\ Names(StoredDicts(extractor)) = <<"Banana", "apple", "Cherry">>
    /\ Names(out_file.data) = <<"apple", "Banana", "Cherry">>

\* the orders in which the indices in S can be listed
RECURSIVE Perms(_)
Perms(S) ==
    IF S = {} THEN {<<>>}
    ELSE UNION {{<<x>> \o q : q \in Perms(S \ {x})} : x \in S}

\* the list rs in the order q of its indices
Reorder(rs, q) == [i \in DOMAIN rs |-> rs[q[i]]]

\* the Place process_result builds from a record with a place_id
PlaceOf(result) == process_result(NewExtractor, result).self.places[1][2]

\* the Place stored under place_id
StoredPlace(self, place_id) ==
    self.places[CHOOSE i \in DOMAIN self.places :
                    self.places[i][1] = place_id][2]

\* the first record of rs with place_id
FirstWith(rs, place_id) ==
    rs[CHOOSE i \in DOMAIN rs :
           /\ Get(rs[i], "place_id", "") = place_id
           /\ \A j \in 1..(i - 1) : Get(rs[j], "place_id", "") # place_id]

\* C25: whatever the order in which the records still to be ingested are
\* passed to process_result, the extractor ends with the same seen ids, the
\* same keys and number of places and the same duplicate counter; the Place
\* kept for a new id is that of the first record ingested with the id.
C25_OrderIndependent ==
    LET listed == IngestAll(extractor, results)
    IN  \A q \in Perms(DOMAIN results) :
            LET rs == Reorder(results, q)
                other == IngestAll(extractor, rs)
            IN  /\ other.seen_place_ids = listed.seen_place_ids
                /\ Range(DictKeys(other.places)) = Range(DictKeys(listed.places))
                /\ Len(other.places) = Len(listed.places)
                /\ other.total_duplicates_skipped =
                       listed.total_duplicates_skipped
                /\ \A id \in other.seen_place_ids \ extractor.seen_place_ids :
                       StoredPlace(other, id) = PlaceOf(FirstWith(rs, id))

\* three records, two of them with the id p1, were ingested apple first;
\* ingested Banana first they give the same ids and counters, another Place
C25_Witness ==
    /\ pc = "batch"
    /\ results = <<>>
    /\ op.count = 3
    /\ extractor = IngestAll(NewExtractor, <<ResApple1, ResCherry3, ResBanana1>>)
    /\ extractor.total_duplicates_skipped = 1
    /\ LET other == IngestAll(NewExtractor, <<ResBanana1, ResCherry3, ResApple1>>)
       IN  /\ other.places # extractor.places
           /\ other.seen_place_ids = extractor.seen_place_ids
           /\ other.total_duplicates_skipped = 1

-----------------------------------------------------------------------------
(* Claims about generate_grid (GridSpec) *)

\* generate_grid was called and has returned or raised
GridCalled == gg.status \in {"returned", "raised"}

\* the fraction f equals n / d (d > 0)
FracEq(f, n, d) == f[1] * d = n * f[2]

\* the fraction f lies strictly between the integers low and high
FracInside(f, low, high) ==
    IF f[2] > 0
    THEN low * f[2] < f[1] /\ f[1] < high * f[2]
    ELSE low * f[2] > f[1] /\ f[1] > high * f[2]

\* C22: for positive division counts R and C generate_grid returns R * C
\* cells, the cell of (row, col) at index row * C + col, so row by row and
\* within a row by ascending column; a second call on the same Config
\* returns the same list.
C22_GridRowMajor ==
    LET R == gg.config.GRID_LAT_DIVISIONS
        C == gg.config.GRID_LNG_DIVISIONS
    IN  (GridCalled /\ R > 0 /\ C > 0) =>
            /\ gg.status = "returned"
            /\ Len(gg.cells) = R * C
            /\ \A row \in 0..(R - 1) : \A col \in 0..(C - 1) :
                   /\ gg.cells[row * C + col + 1].row = row
                   /\ gg.cells[row * C + col + 1].col = col
            /\ gg.calls > 1 =>
                   gg.before = [status |-> "returned", cells |-> gg.cells]

\* a grid of 2 x 3 cells was generated twice
C22_Witness ==
    /\ gg.status = "returned"
    /\ gg.calls = 2
    /\ gg.config.GRID_LAT_DIVISIONS = 2
    /\ gg.config.GRID_LNG_DIVISIONS = 3
    /\ Len(gg.cells) = 6
    /\ gg.cells[4].row = 1 /\ gg.cells[4].col = 0
    /\ gg.before.cells = gg.cells

\* C23: the center of the cell of (r, c) is south + (r + 0.5) * latStep and
\* west + (c + 0.5) * lngStep, with latStep = (north - south) / rows and
\* lngStep = (east - west) / columns, that is, twice its distance from the
\* south (west) edge is 2r + 1 (2c + 1) steps; it lies strictly inside a box
\* with south < north and west < east; the box (0,0)-(2,2) in 2 x 2 cells
\* has the centers (0.5,0.5), (0.5,1.5), (1.5,0.5), (1.5,1.5).
C23_CellCenters ==
    LET config == gg.config
        R == config.GRID_LAT_DIVISIONS
        C == config.GRID_LNG_DIVISIONS
        north == config.BBOX_NORTH
        south == config.BBOX_SOUTH
        east == config.BBOX_EAST
        west == config.BBOX_WEST
    IN  (gg.status = "returned" /\ R > 0 /\ C > 0) =>
            /\ \A k \in DOMAIN gg.cells :
                   LET cell == gg.cells[k]
                       lat == cell.center_lat
                       lng == cell.center_lng
                   IN  /\ 2 * R * (lat[1] - south * lat[2])
                              = (2 * cell.row + 1) * (north - south) * lat[2]
                       /\ 2 * C * (lng[1] - west * lng[2])
                              = (2 * cell.col + 1) * (east - west) * lng[2]
                       /\ lat[2] # 0 /\ lng[2] # 0
                       /\ south < north => FracInside(lat, south, north)
                       /\ west < east => FracInside(lng, west, east)
            /\ (<<north, south, east, west>> = <<2, 0, 2, 0>> /\ R = 2 /\ C = 2) =>
                   /\ FracEq(gg.cells[1].center_lat, 1, 2)
                   /\ FracEq(gg.cells[1].center_lng, 1, 2)
                   /\ FracEq(gg.cells[2].center_lat, 1, 2)
                   /\ FracEq(gg.cells[2].center_lng, 3, 2)
                   /\ FracEq(gg.cells[3].center_lat, 3, 2)
                   /\ FracEq(gg.cells[3].center_lng, 1, 2)
                   /\ FracEq(gg.cells[4].center_lat, 3, 2)
                   /\ FracEq(gg.cells[4].center_lng, 3, 2)

\* the grid of the box (0,0)-(2,2) in 2 x 2 cells was generated
C23_Witness ==
    /\ gg.status = "returned"
    /\ gg.config = [BBOX_NORTH |-> 2, BBOX_SOUTH |-> 0, BBOX_EAST |-> 2,
                    BBOX_WEST |-> 0, GRID_LAT_DIVISIONS |-> 2,
                    GRID_LNG_DIVISIONS |-> 2]
    /\ Len(gg.cells) = 4
    /\ FracEq(gg.cells[4].center_lat, 3, 2)

\* C24: generate_grid raises nothing: with a row count or a column count
\* that is zero or negative it returns the empty list.
C24_DegenerateGridEmpty ==
    (/\ GridCalled
     /\ \/ gg.config.GRID_LAT_DIVISIONS <= 0
        \/ gg.config.GRID_LNG_DIVISIONS <= 0)
    => /\ gg.status = "returned"
       /\ gg.cells = <<>>

-----------------------------------------------------------------------------
(* Claims about the waits between requests (SearchSpec) *)

\* the sleep of DELAY_BETWEEN_REQUESTS_SECONDS
TheDelay == Slept("delay", DELAY_BETWEEN_REQUESTS_SECONDS)

\* the indices in trace of its requests, in order
RequestIndices(trace) ==
    SelectSeq([i \in DOMAIN trace |-> i], LAMBDA i : IsRequest(trace[i]))

\* the events of the trace between the requests at its indices i and j
Between(trace, i, j) == {trace[c] : c \in (i + 1)..(j - 1)}

\* a search has returned, its results are processed, and the next request,
\* if any, is the first one of the next type or of the next cell
SearchEnded == sw # NoSearch /\ pc \in {"sw_call", "sw_done"}

\* C26: between any two consecutive requests (the next page, the retry of
\* a failed request, the first request of the next type or cell)
\* DELAY_BETWEEN_REQUESTS_SECONDS is slept at least once.
C26_DelayBetweenRequests ==
    /\ sw # NoSearch =>
           LET at == RequestIndices(sw.trace)
           IN  \A k \in 1..(Len(at) - 1) :
                   TheDelay \in Between(sw.trace, at[k], at[k + 1])
    /\ SearchEnded => sw.trace # <<>> /\ Last(sw.trace) = TheDelay

\* C26, amended: between any two consecutive requests at least
\* DELAY_BETWEEN_REQUESTS_SECONDS are slept: after a page and after a
\* search DELAY_BETWEEN_REQUESTS_SECONDS itself; before the retry of a
\* failed request only the backoff delay, which is not shorter.
C26_WaitBetweenRequests ==
    /\ sw # NoSearch =>
           LET at == RequestIndices(sw.trace)
           IN  /\ Len(at) = Len(sw.answers)
               /\ \A k \in 1..(Len(at) - 1) :
                      LET between == Between(sw.trace, at[k], at[k + 1])
                      IN  IF sw.answers[k].raised
                          THEN /\ TheDelay \notin between
                               /\ \E e \in between :
                                      /\ IsBackoff(e)
                                      /\ e.seconds >= INITIAL_RETRY_DELAY_SECONDS
                                      /\ e.seconds >= DELAY_BETWEEN_REQUESTS_SECONDS
                          ELSE TheDelay \in between
    /\ SearchEnded => sw.trace # <<>> /\ Last(sw.trace) = TheDelay

\* the last search of the cell, answered at the second attempt with a
\* single page, has ended
C26_Witness ==
    /\ SearchEnded
    /\ type_idx = Len(search_types)
    /\ pc = "sw_done"
    /\ Len(sw.answers) = 2
    /\ sw.answers[1].raised
    /\ sw.trace = <<Requested(NoToken), Slept("backoff", INITIAL_RETRY_DELAY_SECONDS),
                    Requested(NoToken), TheDelay>>

-----------------------------------------------------------------------------
(* Claims about failed loads, the output file and the saved index *)

\* C27: a load_checkpoint that fails on a file that is present but
\* malformed leaves seen_place_ids, places, total_api_calls and
\* total_duplicates_skipped as they were before the call, those of a new
\* extractor.
C27_FailedLoadChangesNothing ==
    (/\ op.name = "load_checkpoint"
     /\ ckpt_file.exists
     /\ resume_from = <<>>)
    => /\ extractor.seen_place_ids = NewExtractor.seen_place_ids
       /\ extractor.places = NewExtractor.places
       /\ extractor.total_api_calls = NewExtractor.total_api_calls
       /\ extractor.total_duplicates_skipped = NewExtractor.total_duplicates_skipped

\* C28: the output file is written only when every cell from the resume
\* index to the end of the grid has been processed, every search of them
\* issued and its results ingested; no step of a run that was interrupted
\* or failed before that changes the output file.
C28_OutputOnlyAfterAllCells ==
    [][out_file' # out_file =>
          /\ pc = "final"
          /\ pc' = "cleanup"
          /\ idx >= total_cells
          /\ search_log = ExpectedSearches(start_from)
          /\ results = <<>>]_vars

\* a resumed run has processed its cells and written the output
C28_Witness ==
    /\ runs = 2
    /\ start_from > 0
    /\ start_from < total_cells
    /\ pc = "cleanup"
    /\ op.name = "save_final_output"
    /\ out_file.exists
    /\ search_log = ExpectedSearches(start_from)

\* C29: the last_completed_cell_index in the checkpoint file never
\* decreases: a checkpoint saved by a run that resumed from a checkpoint
\* holds an index that is not below the one it loaded.
C29_SavedIndexNeverDecreases ==
    (/\ resume_from # <<>>
     /\ pc # "main"
     /\ WellFormed(ckpt_file))
    => ckpt_file.data.checkpoint.last_completed_cell_index >= resume_from[1] - 1

\* C30: in every state of a run that started fresh or from a checkpoint
\* written by save_checkpoint, seen_place_ids is the key set of places and
\* each key is the place_id of its Place; in every checkpoint written,
\* total_unique_places is the number of places and the number of seen ids.
C30_SeenIdsArePlaceKeys ==
    /\ extractor.seen_place_ids = Range(DictKeys(extractor.places))
    /\ \A i \in DOMAIN extractor.places :
           extractor.places[i][1] = extractor.places[i][2][1]
    /\ WellFormed(ckpt_file) =>
           /\ ckpt_file.data.checkpoint.total_unique_places
                  = Len(ckpt_file.data.places)
           /\ ckpt_file.data.checkpoint.total_unique_places
                  = Len(ckpt_file.data.seen_place_ids)

-----------------------------------------------------------------------------
(* Claims about the retry budget and termination of a search *)

\* the number of consecutive failed requests that ends with the k-th answer
RECURSIVE FailedRun(_, _)
FailedRun(answers, k) ==
    IF k = 0 THEN 0
    ELSE IF ~answers[k].raised THEN 0
    ELSE 1 + FailedRun(answers, k - 1)

\* C31: the retry budget is per page: the attempt counter and the backoff
\* delay count the failures since the last fetched page only (the counter
\* is 0 and the delay INITIAL_RETRY_DELAY_SECONDS when a page starts),
\* search_with_retry gives up only after MAX_RETRIES consecutive failures
\* on one page, and the retry of a failed request sends the same cursor.
C31_RetryBudgetPerPage ==
    sw # NoSearch =>
        LET n == Len(sw.answers)
            at == RequestIndices(sw.trace)
        IN  /\ Len(at) = n
            /\ \A k \in 1..n :
                   /\ FailedRun(sw.answers, k) <= MAX_RETRIES
                   /\ FailedRun(sw.answers, k) = MAX_RETRIES => k = n /\ GaveUp
            /\ sw.exhausted => FailedRun(sw.answers, n) = MAX_RETRIES
            /\ \A k \in 1..(n - 1) :
                   sw.answers[k].raised =>
                       /\ sw.trace[at[k + 1]].token = sw.trace[at[k]].token
                       /\ Between(sw.trace, at[k], at[k + 1]) =
                              {Slept("backoff",
                                     INITIAL_RETRY_DELAY_SECONDS
                                         * 2 ^ (FailedRun(sw.answers, k) - 1))}
            /\ sw.status = "request" =>
                   /\ sw.retry_count = FailedRun(sw.answers, n)
                   /\ sw.delay = INITIAL_RETRY_DELAY_SECONDS
                                     * 2 ^ FailedRun(sw.answers, n)
                   /\ (n = 0 \/ ~sw.answers[n].raised) =>
                          /\ sw.retry_count = 0
                          /\ sw.delay = INITIAL_RETRY_DELAY_SECONDS

\* a search has returned its two pages after more than MAX_RETRIES failed
\* requests, some on the first page and some on the second
C31_Witness ==
    /\ Returned
    /\ ~sw.exhausted
    /\ sw.page_num = 2
    /\ Cardinality({k \in DOMAIN sw.answers : sw.answers[k].raised}) > MAX_RETRIES
    /\ sw.answers[1].raised
    /\ sw.answers[Len(sw.answers) - 1].raised
    /\ results = <<ResBanana1, ResApple1>>

\* C32: every call of search_with_retry returns, whatever mix of failures
\* and pages the API answers with, as long as it serves finitely many pages
\* (here MaxPages); so search_grid_cell comes to the end of its place types.
C32_SearchTerminates ==
    /\ (pc = "sw_request") ~> (pc = "sw_ingest" /\ Returned)
    /\ <>(pc \in {"sw_done", "sw_raised"})

\* a search has given up on its second page after MAX_RETRIES - 1 failed
\* requests of the first page and MAX_RETRIES of the second, and the cell
\* has come to its end
C32_Witness ==
    /\ pc = "sw_done"
    /\ GaveUp
    /\ sw.page_num = 1
    /\ Len(sw.answers) = 2 * MAX_RETRIES
    /\ Cardinality({k \in DOMAIN sw.answers : sw.answers[k].raised})
           = 2 * MAX_RETRIES - 1
    /\ api = 0

\* the loop of extract_all_places over the cells ends (FairSpec): the call
\* returns to main, or an exception or interrupt takes it to a handler of
\* main, or the process is killed
ExtractionEnds ==
    (pc = "extract") ~> (pc \in {"final", "handler_write", "killed"})

-----------------------------------------------------------------------------
(* Claims about the viewer (ViewerSpec) *)

\* C33: once the DELETE requests handled concurrently have all returned
\* success, the places file holds no record whose id was in any of them.
C33_ConcurrentDeletesTakeEffect ==
    (\A t \in Requests : vw.req[t].code = 200) =>
        /\ WellFormed(out_file)
        /\ \A i \in DOMAIN out_file.data :
               out_file.data[i].id \notin UNION {vw.req[t].ids : t \in Requests}

====
